---- MODULE Spec2Model ----
\* Model of the adapter-driven sync engine of ai-rules-sync: linkEntry,
\* unlinkEntry and importEntry (sync-engine.ts), the ignore-file editor
\* (utils.ts), the project config store (project-config.ts) and the generic
\* command handlers (commands/handlers.ts, commands/install.ts).
EXTENDS Integers, Sequences, FiniteSets, TLC

\* ---------------------------------------------------------------- bounds

\* Number of engine calls and environment events in one behaviour of the
\* specifications that call the engine directly.
MaxOps == 3

\* Number of CLI commands and environment events in one behaviour of the
\* specification of the commands.
MaxCmds == 2

\* ---------------------------------------------------------------- strings
\* A string is a sequence of tokens; the empty sequence is the empty string,
\* which JavaScript treats like undefined in `alias || name` and `if (suffix)`.

SUFFIX_INSTRUCTIONS_MD == <<".instructions", ".md">>

SUFFIX_MD == <<".md">>

NoStr == <<>>

endsWith(s, suf) ==
    /\ Len(s) >= Len(suf)
    /\ SubSeq(s, Len(s) - Len(suf) + 1, Len(s)) = suf

\* `a || b` on strings.
OrElse(a, b) == IF a # NoStr THEN a ELSE b

Bases == {"a", "b"}

Suffixes == {NoStr, SUFFIX_MD, SUFFIX_INSTRUCTIONS_MD}

\* Every entry name the model handles: a base, possibly followed by a suffix.
Names == {<<b>> \o s : b \in Bases, s \in Suffixes}

BareNames == {<<b>> : b \in Bases}

RepoUrl == "https://example.org/rules.git"

\* Other repositories a dependency record may name: one whose URL ends in the
\* same file name, one whose URL has no .git extension, and one that cannot
\* be cloned.
MirrorUrl == "https://example.com/rules.git"

TeamUrl == "https://example.org/team"

GoneUrl == "https://example.invalid/gone.git"

RepoUrls == {RepoUrl, MirrorUrl, TeamUrl, GoneUrl}

\* The last segment of a URL's path, as the tokens path.basename works on.
LastSegment(url) ==
    CASE url = RepoUrl -> <<"rules", ".git">>
      [] url = MirrorUrl -> <<"rules", ".git">>
      [] url = TeamUrl -> <<"team">>
      [] url = GoneUrl -> <<"gone", ".git">>
      [] OTHER -> <<>>

RECURSIVE Concat(_)
Concat(tokens) == IF tokens = <<>> THEN "" ELSE Head(tokens) \o Concat(Tail(tokens))

\* path.basename(url, ext): the last segment without the extension, unless
\* the segment is the extension itself.
basename(url, ext) ==
    LET base == LastSegment(url) IN
    IF Len(base) > 1 /\ base[Len(base)] = ext
    THEN Concat(SubSeq(base, 1, Len(base) - 1))
    ELSE Concat(base)

\* ---------------------------------------------------------------- adapters

cursorRulesAdapter ==
    [name |-> "cursor-rules", tool |-> "cursor", subtype |-> "rules",
     configPath |-> <<"cursor", "rules">>,
     defaultSourceDir |-> ".cursor/rules", targetDir |-> ".cursor/rules",
     mode |-> "directory", hooks |-> "cursor-rules"]

copilotInstructionsAdapter ==
    [name |-> "copilot-instructions", tool |-> "copilot", subtype |-> "instructions",
     configPath |-> <<"copilot", "instructions">>,
     defaultSourceDir |-> "rules", targetDir |-> ".github/instructions",
     mode |-> "file", hooks |-> "copilot-instructions"]

\* The adapter of .cursor/commands: command files linked under the name given,
\* without suffix resolution.
cursorCommandsAdapter ==
    [name |-> "cursor-commands", tool |-> "cursor", subtype |-> "commands",
     configPath |-> <<"cursor", "commands">>,
     defaultSourceDir |-> ".cursor/commands", targetDir |-> ".cursor/commands",
     mode |-> "file", hooks |-> "none"]

\* The adapters the commands are run with: cursorRulesAdapter's hooks do what
\* the default resolution of a hook-less adapter does, so one directory-mode
\* adapter and the suffix-resolving file-mode adapter cover the engine's paths.
Adapters == {cursorRulesAdapter, copilotInstructionsAdapter}

\* The adapters whose entries a project's config holds and install links.
Registry == Adapters \cup {cursorCommandsAdapter}

Sections == {a.configPath : a \in Registry}

TargetDirs == {a.targetDir : a \in Registry}

SourceDirs == {a.defaultSourceDir : a \in Registry}

\* The adapter of the README's "Adding a New AI Tool Adapter".
myToolAdapter ==
    [name |-> "my-tool", tool |-> "my-tool", subtype |-> "configs",
     configPath |-> <<"myTool", "configs">>, defaultSourceDir |-> ".my-tool/configs",
     targetDir |-> ".my-tool/configs", mode |-> "directory", hooks |-> "none"]

\* DefaultAdapterRegistry: `adapters` maps a key to an adapter, `toolMap` a
\* tool to the adapters registered for it, in order.
EmptyRegistry == [adapters |-> <<>>, toolMap |-> <<>>]

\* Map.prototype.get / set on a map kept as a sequence of [key, val] members.
mapHas(m, k) == \E i \in DOMAIN m : m[i].key = k

mapGet(m, k) == m[CHOOSE i \in DOMAIN m : m[i].key = k].val

mapSet(m, k, v) ==
    IF mapHas(m, k)
    THEN [i \in DOMAIN m |-> IF m[i].key = k THEN [key |-> k, val |-> v] ELSE m[i]]
    ELSE Append(m, [key |-> k, val |-> v])

register(reg, adapter) ==
    [adapters |-> mapSet(reg.adapters, adapter.name, adapter),
     toolMap |-> mapSet(reg.toolMap, adapter.tool,
                        Append(IF mapHas(reg.toolMap, adapter.tool)
                               THEN mapGet(reg.toolMap, adapter.tool) ELSE <<>>,
                               adapter))]

\* DefaultAdapterRegistry.get; no adapter is undefined.
NoAdapterFound == [found |-> FALSE, adapter |-> [name |-> ""]]

registryGet(reg, tool, subtype) ==
    IF mapHas(reg.adapters, tool \o "-" \o subtype)
    THEN [found |-> TRUE, adapter |-> mapGet(reg.adapters, tool \o "-" \o subtype)]
    ELSE NoAdapterFound

\* getAdapter: the adapter, or the error thrown.
getAdapter(reg, tool, subtype) ==
    LET adapter == registryGet(reg, tool, subtype) IN
    [threw |-> ~adapter.found, adapter |-> adapter.adapter]

\* The registry after its constructor.
DefaultAdapterRegistry ==
    register(register(register(EmptyRegistry, cursorRulesAdapter), cursorCommandsAdapter),
             copilotInstructionsAdapter)

\* The names a command may be given for an adapter: directory-mode entries are
\* named without a suffix, file-mode entries with or without one.
InputNames(ad) ==
    IF ad.mode = "file"
    THEN BareNames \cup {<<"a">> \o SUFFIX_MD, <<"a">> \o SUFFIX_INSTRUCTIONS_MD}
    ELSE BareNames

\* The aliases a command may be given: none, or a name without suffix.
InputAliases == {NoStr} \cup BareNames

\* ---------------------------------------------------------------- filesystem
\* A path is a directory and an entry name in it. An entry is absent ("none"),
\* a real file or directory carrying data, or a symbolic link with a referent.

Path(dir, name) == [dir |-> dir, name |-> name]

NoPath == Path("", NoStr)

NoEnt == [kind |-> "none", data |-> "", ref |-> NoPath]

Real(kind, data) == [kind |-> kind, data |-> data, ref |-> NoPath]

Symlink(ref) == [kind |-> "symlink", data |-> "", ref |-> ref]

ProjPaths == {Path(d, n) : d \in TargetDirs, n \in Names}

RepoPaths == {Path(d, n) : d \in SourceDirs, n \in Names}

\* The kind of entry an adapter's mode stores.
KindOf(ad) == IF ad.mode = "file" THEN "file" ELSE "dir"

VARIABLES
    proj,       \* project: entry at each <targetDir>/<name>
    projDirs,   \* project: the target directories that exist
    repo,       \* local clone of the rules repository: entry at each path,
                \* with whether it is committed
    ignore,     \* .gitignore and .git/info/exclude
    cfg,        \* ai-rules-sync*.json and the legacy cursor-rules*.json
    gitInfo,    \* whether <project>/.git/info exists
    repoFile,   \* the ai-rules-sync.json of the rules repository
    adapterRegistry, \* the registry's adapters by key and by tool
    configDir,  \* ~/.ai-rules-sync: config.json and the directories under repos/
    clock,      \* Date.now()
    invocations, \* calls of addDependencyGeneric under way: where each is and
                \* the config it holds in memory
    last,       \* the last command, its arguments and its result
    ops         \* commands and events so far

vars == <<proj, projDirs, repo, ignore, cfg, gitInfo, repoFile, adapterRegistry,
          configDir, clock, invocations, last, ops>>

\* The processes that may run the tool on one project at the same time.
Procs == {1, 2}

\* No call of addDependencyGeneric under way.
NoInvocations == [p \in Procs |-> [pc |-> "idle"]]

\* An entry of the repository clone; committed tells whether git has it.
NoRepoEnt == [kind |-> "none", data |-> "", committed |-> FALSE]

RepoEnt(kind, data, committed) == [kind |-> kind, data |-> data, committed |-> committed]

\* The mutable world the engine works on, as one value.
World ==
    [proj |-> proj, projDirs |-> projDirs, repo |-> repo, ignore |-> ignore,
     cfg |-> cfg, gitInfo |-> gitInfo, repoFile |-> repoFile,
     adapterRegistry |-> adapterRegistry, configDir |-> configDir, clock |-> clock]

\* fs.pathExists on a repository path.
repoPathExists(w, p) == p \in DOMAIN w.repo /\ w.repo[p].kind # "none"

\* fs.pathExists on a project path: it follows symbolic links (fs.access), so a
\* link whose referent is gone does not exist for it.
projPathExists(w, p) ==
    LET e == w.proj[p] IN
    IF e.kind = "symlink" THEN repoPathExists(w, e.ref) ELSE e.kind # "none"

\* fs.lstat(p).isSymbolicLink()
isSymbolicLink(w, p) == w.proj[p].kind = "symlink"

\* ---------------------------------------------------------------- ignore files
\* A text file is the sequence content.split('\n') of its lines: the empty
\* content is <<"">>, and a content ending in a newline has a last line "".

EmptyContent == << NoStr >>

NoFile == [exists |-> FALSE, lines |-> EmptyContent]

RECURSIVE TrimLeft(_)
TrimLeft(l) == IF l # <<>> /\ Head(l) = " " THEN TrimLeft(Tail(l)) ELSE l

RECURSIVE TrimRight(_)
TrimRight(l) ==
    IF l # <<>> /\ l[Len(l)] = " " THEN TrimRight(SubSeq(l, 1, Len(l) - 1)) ELSE l

\* String.prototype.trim
trim(l) == TrimRight(TrimLeft(l))

Front(s) == SubSeq(s, 1, Len(s) - 1)

HEADER_AI_RULES_SYNC == <<"# AI Rules Sync">>

HEADER_LOCAL_CONFIG == <<"# Local AI Rules Sync Config">>

LOCAL_CONFIG_LINE == <<"ai-rules-sync.local.json">>

\* `${adapter.targetDir}/${targetName}`
IgnoreLine(ad, targetName) == <<ad.targetDir, "/">> \o targetName

\* addIgnoreEntry without its test for a line already present.
addIgnoreEntryAlways(file, entry, header) ==
    LET content == IF file.exists THEN file.lines ELSE EmptyContent
    IN [file |-> [exists |-> TRUE, lines |-> content \o <<header, entry, NoStr>>],
        added |-> TRUE]

\* utils.addIgnoreEntry: the file afterwards and the value returned.
addIgnoreEntry(file, entry, header) ==
    LET content == IF file.exists THEN file.lines ELSE EmptyContent
        lines == {trim(content[i]) : i \in DOMAIN content}
        needNl == content[Len(content)] # NoStr
        hdr == IF header # NoStr /\ header \notin lines THEN <<header>> ELSE <<>>
        kept == IF needNl THEN content ELSE Front(content)
    IN  IF entry \in lines
        THEN [file |-> file, added |-> FALSE]
        ELSE [file |-> [exists |-> TRUE,
                        lines |-> kept \o hdr \o <<entry, NoStr>>],
              added |-> TRUE]

\* utils.removeIgnoreEntry: the file afterwards and the value returned.
removeIgnoreEntry(file, entry) ==
    LET newLines == SelectSeq(file.lines, LAMBDA l : trim(l) # entry)
    IN  IF ~file.exists \/ Len(newLines) = Len(file.lines)
        THEN [file |-> file, removed |-> FALSE]
        ELSE [file |-> [exists |-> TRUE,
                        lines |-> IF newLines = <<>> THEN EmptyContent ELSE newLines],
              removed |-> TRUE]

\* handleIgnoreEntry sending every line to .gitignore.
handleIgnoreEntryGeneral(w, entry, isLocal) ==
    [w EXCEPT !.ignore.gitignore =
        addIgnoreEntry(w.ignore.gitignore, entry, HEADER_AI_RULES_SYNC).file]

\* sync-engine.handleIgnoreEntry with add = true: the world afterwards.
handleIgnoreEntry(w, entry, isLocal) ==
    IF isLocal
    THEN IF w.gitInfo
         THEN LET f == IF w.ignore.exclude.exists
                       THEN w.ignore.exclude
                       ELSE [exists |-> TRUE, lines |-> EmptyContent]
              IN [w EXCEPT !.ignore.exclude =
                     addIgnoreEntry(f, entry, HEADER_AI_RULES_SYNC).file]
         ELSE w
    ELSE [w EXCEPT !.ignore.gitignore =
             addIgnoreEntry(w.ignore.gitignore, entry, HEADER_AI_RULES_SYNC).file]

\* ---------------------------------------------------------------- JSON objects
\* A JSON object is the sequence of its [key, val] members in insertion order,
\* which is the order Object.entries and the spread operator use.

objHas(o, k) == \E i \in DOMAIN o : o[i].key = k

objSet(o, k, v) ==
    IF objHas(o, k)
    THEN [i \in DOMAIN o |-> IF o[i].key = k THEN [key |-> k, val |-> v] ELSE o[i]]
    ELSE Append(o, [key |-> k, val |-> v])

objDelete(o, k) == SelectSeq(o, LAMBDA m : m.key # k)

\* { ...a, ...b }
RECURSIVE objSpread(_, _)
objSpread(a, b) ==
    IF b = <<>> THEN a ELSE objSpread(objSet(a, Head(b).key, Head(b).val), Tail(b))

\* A dependency value: the bare repository URL, or { url, rule }.
UrlEntry(url) == [isObj |-> FALSE, url |-> url, rule |-> NoStr]

ObjEntry(url, rule) == [isObj |-> TRUE, url |-> url, rule |-> rule]

\* ---------------------------------------------------------------- config store
\* cfg.main / cfg.local: ai-rules-sync.json / ai-rules-sync.local.json, whose
\* body maps each section [tool, subtype] to its object of dependency records
\* (a missing section reads as the empty object everywhere in the code).
\* cfg.legacyMain / cfg.legacyLocal: cursor-rules.json / cursor-rules.local.json,
\* whose only content is the object "rules".

\* top holds the top-level fields next to the sections: rootPath, and
\* sourceDir as the directory it gives for cursor.rules.

\* A string-valued property of a JSON object that may be left out.
Undefined == [defined |-> FALSE, str |-> ""]

Str(s) == [defined |-> TRUE, str |-> s]

EmptyBody == [s \in Sections |-> <<>>]

NoTop == [rootPath |-> Undefined, sourceDir |-> Undefined]

NoConfigFile == [exists |-> FALSE, body |-> EmptyBody, top |-> NoTop]

\* The top-level fields readConfigFile returns with the sections.
readTop(f) == IF f.exists THEN f.top ELSE NoTop

NoLegacyFile == [exists |-> FALSE, rules |-> <<>>]

readConfigFile(f) == IF f.exists THEN f.body ELSE EmptyBody

readLegacyFile(f) == IF f.exists THEN f.rules ELSE <<>>

hasAnyNewConfig(c) == c.main.exists \/ c.local.exists

hasAnyLegacyConfig(c) == c.legacyMain.exists \/ c.legacyLocal.exists

legacyToNew(rules) ==
    [s \in Sections |-> IF s = <<"cursor", "rules">> THEN rules ELSE <<>>]

\* mergeCombined spreading the public file last.
mergeCombinedMainLast(main, local) ==
    [s \in Sections |-> objSpread(local[s], main[s])]

mergeCombined(main, local) ==
    [s \in Sections |-> objSpread(main[s], local[s])]

\* getConfigSource looking at the legacy files first.
getConfigSourceLegacyFirst(c) ==
    IF hasAnyLegacyConfig(c) THEN "legacy"
    ELSE IF hasAnyNewConfig(c) THEN "new"
    ELSE "none"

getConfigSource(c) ==
    IF hasAnyNewConfig(c) THEN "new"
    ELSE IF hasAnyLegacyConfig(c) THEN "legacy"
    ELSE "none"

getCombinedProjectConfig(c) ==
    CASE getConfigSource(c) = "new" ->
            mergeCombined(readConfigFile(c.main), readConfigFile(c.local))
      [] getConfigSource(c) = "legacy" ->
            mergeCombined(legacyToNew(readLegacyFile(c.legacyMain)),
                          legacyToNew(readLegacyFile(c.legacyLocal)))
      [] OTHER -> mergeCombined(EmptyBody, EmptyBody)

\* migrateLegacyToNew run whenever a legacy file exists.
migrateLegacyAlways(c) ==
    IF ~hasAnyLegacyConfig(c)
    THEN [cfg |-> c, migrated |-> FALSE]
    ELSE [cfg |-> [c EXCEPT
                     !.main = [exists |-> TRUE, top |-> NoTop,
                               body |-> legacyToNew(readLegacyFile(c.legacyMain))],
                     !.local = [exists |-> TRUE, top |-> NoTop,
                                body |-> legacyToNew(readLegacyFile(c.legacyLocal))]],
          migrated |-> TRUE]

\* migrateLegacyToNew writing the public file only.
migrateLegacyMainOnly(c) ==
    IF getConfigSource(c) # "legacy"
    THEN [cfg |-> c, migrated |-> FALSE]
    ELSE [cfg |-> [c EXCEPT
                     !.main = [exists |-> TRUE, top |-> NoTop,
                               body |-> legacyToNew(readLegacyFile(c.legacyMain))]],
          migrated |-> TRUE]

\* The config files afterwards and the value returned.
migrateLegacyToNew(c) ==
    IF getConfigSource(c) # "legacy"
    THEN [cfg |-> c, migrated |-> FALSE]
    ELSE LET newMain == legacyToNew(readLegacyFile(c.legacyMain))
             newLocal == legacyToNew(readLegacyFile(c.legacyLocal))
             c1 == [c EXCEPT !.main = [exists |-> TRUE, body |-> newMain, top |-> NoTop]]
             c2 == IF newLocal[<<"cursor", "rules">>] # <<>>
                   THEN [c1 EXCEPT !.local = [exists |-> TRUE, body |-> newLocal,
                                             top |-> NoTop]]
                   ELSE c1
         IN [cfg |-> c2, migrated |-> TRUE]

\* dependencyValue storing { url, rule } for every alias given.
dependencyValueAliased(name, repoUrl, alias) ==
    IF alias # NoStr THEN ObjEntry(repoUrl, name) ELSE UrlEntry(repoUrl)

\* The value addDependencyGeneric stores for (name, alias).
dependencyValue(name, repoUrl, alias) ==
    IF alias # NoStr /\ alias # name THEN ObjEntry(repoUrl, name) ELSE UrlEntry(repoUrl)

\* addDependencyGeneric writing a section that holds the new record alone.
addDependencyGenericFreshSection(c, configPath, name, repoUrl, alias, isLocal) ==
    LET migration == migrateLegacyToNew(c)
        c1 == migration.cfg
        file == IF isLocal THEN c1.local ELSE c1.main
        config == readConfigFile(file)
        targetName == OrElse(alias, name)
        written == [exists |-> TRUE, top |-> readTop(file),
                    body |-> [config EXCEPT ![configPath] =
                                 objSet(<<>>, targetName,
                                        dependencyValue(name, repoUrl, alias))]]
    IN [cfg |-> IF isLocal THEN [c1 EXCEPT !.local = written]
                           ELSE [c1 EXCEPT !.main = written],
        migrated |-> migration.migrated]

addDependencyGeneric(c, configPath, name, repoUrl, alias, isLocal) ==
    LET migration == migrateLegacyToNew(c)
        c1 == migration.cfg
        file == IF isLocal THEN c1.local ELSE c1.main
        config == readConfigFile(file)
        targetName == OrElse(alias, name)
        written == [exists |-> TRUE, top |-> readTop(file),
                    body |-> [config EXCEPT ![configPath] =
                                 objSet(@, targetName,
                                        dependencyValue(name, repoUrl, alias))]]
    IN [cfg |-> IF isLocal THEN [c1 EXCEPT !.local = written]
                           ELSE [c1 EXCEPT !.main = written],
        migrated |-> migration.migrated]

\* The file addDependencyGeneric reads and writes.
fileForWrite(c, isLocal) == IF isLocal THEN c.local ELSE c.main

\* The parsed JSON held in memory: top-level fields and sections.
readNewConfigForWrite(c, isLocal) ==
    [top |-> readTop(fileForWrite(c, isLocal)),
     body |-> readConfigFile(fileForWrite(c, isLocal))]

\* addDependencyGeneric's assignment to config[topLevel][subLevel][targetName].
setDependency(config, configPath, name, repoUrl, alias) ==
    [config EXCEPT !.body[configPath] =
        objSet(@, OrElse(alias, name), dependencyValue(name, repoUrl, alias))]

\* writeNewConfig keeping the members the file holds that config lacks.
writeNewConfigMerged(c, isLocal, config) ==
    LET held == readConfigFile(fileForWrite(c, isLocal))
        written == [exists |-> TRUE, top |-> config.top,
                    body |-> [s \in Sections |-> objSpread(held[s], config.body[s])]]
    IN IF isLocal THEN [c EXCEPT !.local = written] ELSE [c EXCEPT !.main = written]

\* fs.writeJson(configPath, config): the file becomes config.
writeNewConfig(c, isLocal, config) ==
    LET written == [exists |-> TRUE, top |-> config.top, body |-> config.body]
    IN IF isLocal THEN [c EXCEPT !.local = written] ELSE [c EXCEPT !.main = written]

\* One file of removeDependencyGeneric: deleted and rewritten only when the
\* alias is in it.
removeFromFile(file, configPath, alias) ==
    IF objHas(readConfigFile(file)[configPath], alias)
    THEN [exists |-> TRUE, top |-> readTop(file),
          body |-> [readConfigFile(file) EXCEPT ![configPath] = objDelete(@, alias)]]
    ELSE file

removeDependencyGeneric(c, configPath, alias) ==
    LET migration == migrateLegacyToNew(c)
        c1 == migration.cfg
        inMain == objHas(readConfigFile(c1.main)[configPath], alias)
        inLocal == objHas(readConfigFile(c1.local)[configPath], alias)
    IN [cfg |-> [c1 EXCEPT !.main = removeFromFile(c1.main, configPath, alias),
                           !.local = removeFromFile(c1.local, configPath, alias)],
        removedFrom |-> (IF inMain THEN {"ai-rules-sync.json"} ELSE {})
                        \cup (IF inLocal THEN {"ai-rules-sync.local.json"} ELSE {}),
        migrated |-> migration.migrated]

\* commands/helpers.parseConfigEntry
parseConfigEntry(key, value) ==
    IF ~value.isObj
    THEN [repoUrl |-> value.url, entryName |-> key, alias |-> NoStr]
    ELSE [repoUrl |-> value.url, entryName |-> OrElse(value.rule, key), alias |-> key]

\* ---------------------------------------------------------------- global config
\* config.json of ~/.ai-rules-sync holds the repositories by name; repos/
\* holds their clones.

RepoConfig(name, url) == [name |-> name, url |-> url, path |-> "repos/" \o name]

Home(currentRepo, repos, dirs) ==
    [config |-> [currentRepo |-> currentRepo, repos |-> repos], dirs |-> dirs]

\* The home directory after `ais use` of the rules repository.
ConfiguredHome ==
    Home("rules", <<[key |-> "rules", val |-> RepoConfig("rules", RepoUrl)]>>, {"repos/rules"})

getConfig(w) == w.configDir.config

\* setConfig({ repos }): { ...current, ...config }
setConfig(w, repos) == [w EXCEPT !.configDir.config.repos = repos]

\* git.cloneOrUpdateRepo when repo.path is not a clone yet: the directory is
\* made, and git clone fails for a URL that cannot be reached. It takes time.
cloneOrUpdateRepo(w, repoConfig) ==
    [w |-> [w EXCEPT !.configDir.dirs = @ \cup {repoConfig.path}, !.clock = @ + 1],
     threw |-> repoConfig.url = GoneUrl]

\* What findOrCreateRepo leaves: the world, its argument `repos`, the
\* repository it returns, and whether cloneOrUpdateRepo threw.
RepoFound(w, repos, repoConfig, threw) ==
    [w |-> w, repos |-> repos, repo |-> repoConfig, threw |-> threw]

\* The name of a repository configured for a URL: the URL's file name, made
\* distinct with the time when it is taken.
newRepoName(repos, repoUrl, now) ==
    LET base == basename(repoUrl, ".git")
        name == IF base = "" THEN "repo-" \o ToString(now) ELSE base
    IN IF objHas(repos, name) THEN name \o "-" \o ToString(now) ELSE name

\* findOrCreateRepo without `repos[name] = repoConfig`.
findOrCreateRepoForgetful(w, repos, repoUrl) ==
    IF \E i \in DOMAIN repos : repos[i].val.url = repoUrl
    THEN LET k == CHOOSE i \in DOMAIN repos :
                     /\ repos[i].val.url = repoUrl
                     /\ \A j \in 1..(i - 1) : repos[j].val.url # repoUrl
             found == repos[k].val
             cloned == cloneOrUpdateRepo(w, found)
         IN IF found.path \in w.configDir.dirs THEN RepoFound(w, repos, found, FALSE)
            ELSE RepoFound(cloned.w, repos, found, cloned.threw)
    ELSE LET name == newRepoName(repos, repoUrl, w.clock)
             repoConfig == RepoConfig(name, repoUrl)
             cloned == cloneOrUpdateRepo(setConfig(w, objSet(repos, name, repoConfig)),
                                         repoConfig)
         IN RepoFound(cloned.w, repos, repoConfig, cloned.threw)

findOrCreateRepo(w, repos, repoUrl) ==
    IF \E i \in DOMAIN repos : repos[i].val.url = repoUrl
    THEN LET k == CHOOSE i \in DOMAIN repos :
                     /\ repos[i].val.url = repoUrl
                     /\ \A j \in 1..(i - 1) : repos[j].val.url # repoUrl
             found == repos[k].val
             cloned == cloneOrUpdateRepo(w, found)
         IN IF found.path \in w.configDir.dirs THEN RepoFound(w, repos, found, FALSE)
            ELSE RepoFound(cloned.w, repos, found, cloned.threw)
    ELSE LET name == newRepoName(repos, repoUrl, w.clock)
             repoConfig == RepoConfig(name, repoUrl)
             cloned == cloneOrUpdateRepo(setConfig(w, objSet(repos, name, repoConfig)),
                                         repoConfig)
         IN RepoFound(cloned.w, objSet(repos, name, repoConfig), repoConfig, cloned.threw)

\* ---------------------------------------------------------------- source directory
\* What a ProjectConfig holds under tool.subtype: nothing, a string (the flat
\* form of a source directory) or an object of dependency records.
NoValue == [kind |-> "undefined", str |-> ""]

StringValue(s) == [kind |-> "string", str |-> s]

ObjectValue == [kind |-> "object", str |-> ""]

\* The ai-rules-sync.json of a rules repository as a ProjectConfig: rootPath,
\* sourceDir (when present, the directory of each tool.subtype) and the values
\* under tool.subtype.
RepoFile(rootPath, hasSourceDir, sourceDir, flat) ==
    [exists |-> TRUE, rootPath |-> rootPath, hasSourceDir |-> hasSourceDir,
     sourceDir |-> sourceDir, flat |-> flat]

NoRepoFile ==
    [exists |-> FALSE, rootPath |-> Undefined, hasSourceDir |-> FALSE,
     sourceDir |-> [s \in Sections |-> Undefined], flat |-> [s \in Sections |-> NoValue]]

\* The repository-side configuration returned by getRepoSourceConfig: rootPath
\* and the directory of each tool.subtype.
RepoSourceConfig(rootPath, dirs) == [rootPath |-> rootPath, dirs |-> dirs]

NoRepoSourceConfig == RepoSourceConfig(Undefined, [s \in Sections |-> Undefined])

\* path.join of two relative directories.
joinDir(a, b) == IF a = "" THEN b ELSE IF b = "" THEN a ELSE a \o "/" \o b

\* The tool.subtype pairs getSourceDir looks up.
SourceDirKeys ==
    {<<"cursor", "rules">>, <<"cursor", "commands">>, <<"cursor", "skills">>,
     <<"copilot", "instructions">>, <<"claude", "skills">>, <<"claude", "agents">>}

\* getSourceDir leaving rootPath out.
getSourceDirUnrooted(repoConfig, tool, subtype, defaultDir) ==
    LET toolDir == IF <<tool, subtype>> \in SourceDirKeys \cap DOMAIN repoConfig.dirs
                   THEN repoConfig.dirs[<<tool, subtype>>] ELSE Undefined
    IN IF toolDir.defined THEN toolDir.str ELSE defaultDir

getSourceDir(repoConfig, tool, subtype, defaultDir) ==
    LET rootPath == IF repoConfig.rootPath.defined THEN repoConfig.rootPath.str ELSE ""
        toolDir == IF <<tool, subtype>> \in SourceDirKeys \cap DOMAIN repoConfig.dirs
                   THEN repoConfig.dirs[<<tool, subtype>>] ELSE Undefined
        dir == IF toolDir.defined THEN toolDir.str ELSE defaultDir
    IN IF rootPath # "" THEN joinDir(rootPath, dir) ELSE dir

\* getRepoSourceConfig taking whatever is under tool.subtype for a directory.
getRepoSourceConfigUntyped(w) ==
    LET config == w.repoFile IN
    IF ~config.exists THEN NoRepoSourceConfig
    ELSE RepoSourceConfig(config.rootPath,
            [s \in Sections |->
                IF config.flat[s].kind = "undefined" THEN Undefined
                ELSE IF config.flat[s].kind = "string" THEN Str(config.flat[s].str)
                ELSE Str("[object Object]")])

getRepoSourceConfig(w) ==
    LET config == w.repoFile
        isString(s) == config.flat[s].kind = "string"
    IN  IF ~config.exists THEN NoRepoSourceConfig
        ELSE IF config.hasSourceDir
        THEN RepoSourceConfig(config.rootPath, config.sourceDir)
        ELSE IF \E s \in Sections : isString(s)
        THEN RepoSourceConfig(config.rootPath,
                [s \in Sections |->
                    IF isString(s) THEN Str(config.flat[s].str) ELSE Undefined])
        ELSE RepoSourceConfig(config.rootPath, [s \in Sections |-> Undefined])

\* ---------------------------------------------------------------- adapter hooks

Resolved(sourceName, sourcePath, suffix) ==
    [ok |-> TRUE, error |-> "", named |-> <<>>, sourceName |-> sourceName,
     sourcePath |-> sourcePath, suffix |-> suffix]

\* A resolution that throws: the kind of error and the names its message quotes.
NotResolved(error, named) ==
    [ok |-> FALSE, error |-> error, named |-> named, sourceName |-> NoStr,
     sourcePath |-> NoPath, suffix |-> NoStr]

\* resolveAsIs without its existence check.
resolveAsIsUnchecked(w, sourceDir, name, suffix) ==
    Resolved(name, Path(sourceDir, name), suffix)

\* A name used as it is, provided it exists in the source directory.
resolveAsIs(w, sourceDir, name, suffix) ==
    IF repoPathExists(w, Path(sourceDir, name))
    THEN Resolved(name, Path(sourceDir, name), suffix)
    ELSE NotResolved("NotFound", <<name>>)

\* copilotInstructionsAdapter.resolveSource taking the first candidate that
\* exists.
copilotResolveFirstMatch(w, sourceDir, name) ==
    LET candA == name \o SUFFIX_INSTRUCTIONS_MD
        candB == name \o SUFFIX_MD
    IN  IF endsWith(name, SUFFIX_INSTRUCTIONS_MD)
        THEN resolveAsIs(w, sourceDir, name, SUFFIX_INSTRUCTIONS_MD)
        ELSE IF endsWith(name, SUFFIX_MD)
        THEN resolveAsIs(w, sourceDir, name, SUFFIX_MD)
        ELSE IF repoPathExists(w, Path(sourceDir, candA))
        THEN Resolved(candA, Path(sourceDir, candA), SUFFIX_INSTRUCTIONS_MD)
        ELSE resolveAsIs(w, sourceDir, candB, SUFFIX_MD)

\* copilotInstructionsAdapter.resolveSource
copilotResolveSource(w, sourceDir, name) ==
    LET candA == name \o SUFFIX_INSTRUCTIONS_MD
        candB == name \o SUFFIX_MD
        existsA == repoPathExists(w, Path(sourceDir, candA))
        existsB == repoPathExists(w, Path(sourceDir, candB))
    IN  IF endsWith(name, SUFFIX_INSTRUCTIONS_MD)
        THEN resolveAsIs(w, sourceDir, name, SUFFIX_INSTRUCTIONS_MD)
        ELSE IF endsWith(name, SUFFIX_MD)
        THEN resolveAsIs(w, sourceDir, name, SUFFIX_MD)
        ELSE IF existsA /\ existsB THEN NotResolved("AmbiguousSuffix", <<candA, candB>>)
        ELSE IF existsA THEN Resolved(candA, Path(sourceDir, candA), SUFFIX_INSTRUCTIONS_MD)
        ELSE IF existsB THEN Resolved(candB, Path(sourceDir, candB), SUFFIX_MD)
        ELSE NotResolved("NotFound", <<name>>)

\* copilotInstructionsAdapter.resolveTargetName without the source suffix.
copilotTargetNameBare(name, alias, sourceSuffix) == OrElse(alias, name)

\* copilotInstructionsAdapter.resolveTargetName
copilotResolveTargetName(name, alias, sourceSuffix) ==
    LET base == OrElse(alias, name) IN
    IF endsWith(base, SUFFIX_INSTRUCTIONS_MD) \/ endsWith(base, SUFFIX_MD) THEN base
    ELSE IF sourceSuffix # NoStr THEN base \o sourceSuffix
    ELSE base

\* The source linkEntry resolves: the adapter's hook, or the default resolution.
resolveSource(w, ad, sourceDir, name) ==
    IF ad.hooks = "copilot-instructions"
    THEN copilotResolveSource(w, sourceDir, name)
    ELSE resolveAsIs(w, sourceDir, name, NoStr)

\* The target name linkEntry resolves: the adapter's hook, or alias || name.
resolveTargetName(ad, name, alias, suffix) ==
    IF ad.hooks = "copilot-instructions"
    THEN copilotResolveTargetName(name, alias, suffix)
    ELSE OrElse(alias, name)

\* ---------------------------------------------------------------- sync engine

Req(name, alias, isLocal) == [name |-> name, alias |-> alias, isLocal |-> isLocal]

\* What an engine operation hands back: the world afterwards, whether it threw
\* (and which error), and the LinkResult when it returned.
Outcome(w, threw, error, sourceName, targetName, linked) ==
    [w |-> w, threw |-> threw, error |-> error, sourceName |-> sourceName,
     targetName |-> targetName, linked |-> linked]

Thrown(w, error) == Outcome(w, TRUE, error, NoStr, NoStr, FALSE)

\* linkEntry leaving out the lstat test: whatever is at the target is replaced.
targetConflictIgnored(w, targetPath) == FALSE

\* linkEntry: something exists at the target path and it is not a symbolic link.
targetConflict(w, targetPath) ==
    projPathExists(w, targetPath) /\ ~isSymbolicLink(w, targetPath)

\* sync-engine.linkEntry from "Create symlink" on: the target directory exists,
\* source and target name are resolved.
linkResolved(w, ad, src, targetName, isLocal) ==
    LET targetPath == Path(ad.targetDir, targetName)
        \* fs.remove of an existing symbolic link
        w1 == IF projPathExists(w, targetPath) /\ isSymbolicLink(w, targetPath)
              THEN [w EXCEPT !.proj[targetPath] = NoEnt] ELSE w
        w2 == [w1 EXCEPT !.proj[targetPath] = Symlink(src.sourcePath)]
    IN  IF targetConflict(w, targetPath)
        THEN Outcome(w, FALSE, "", src.sourceName, targetName, FALSE)
        \* fs.ensureSymlink on a link left in place (its referent is gone):
        \* it stats the referent and fails
        ELSE IF w1.proj[targetPath].kind = "symlink"
        THEN Thrown(w1, "ensureSymlink")
        ELSE Outcome(handleIgnoreEntry(w2, IgnoreLine(ad, targetName), isLocal),
                     FALSE, "", src.sourceName, targetName, TRUE)

\* linkEntry making the target directory before it resolves the source.
linkEntryEnsureDirFirst(w, ad, req) ==
    LET repoConfig == getRepoSourceConfig(w)
        sourceDir == getSourceDir(repoConfig, ad.tool, ad.subtype, ad.defaultSourceDir)
        src == resolveSource(w, ad, sourceDir, req.name)
        targetName == resolveTargetName(ad, req.name, req.alias, src.suffix)
        w1 == [w EXCEPT !.projDirs = @ \cup {ad.targetDir}]
    IN  IF ~src.ok THEN Thrown(w1, src.error)
        ELSE linkResolved(w1, ad, src, targetName, req.isLocal)

linkEntry(w, ad, req) ==
    LET repoConfig == getRepoSourceConfig(w)
        sourceDir == getSourceDir(repoConfig, ad.tool, ad.subtype, ad.defaultSourceDir)
        src == resolveSource(w, ad, sourceDir, req.name)
        targetName == resolveTargetName(ad, req.name, req.alias, src.suffix)
        \* fs.ensureDir(targetDir)
        w1 == [w EXCEPT !.projDirs = @ \cup {ad.targetDir}]
    IN  IF ~src.ok THEN Thrown(w, src.error)
        ELSE linkResolved(w1, ad, src, targetName, req.isLocal)

\* fs.remove of the target of unlinkEntry, when fs.pathExists finds it.
unlinkRemove(w, targetPath) ==
    IF projPathExists(w, targetPath)
    THEN [w EXCEPT !.proj[targetPath] = NoEnt]
    ELSE w

\* unlinkEntry cleaning .gitignore only.
unlinkEntryGeneralOnly(w, ad, alias) ==
    LET w1 == unlinkRemove(w, Path(ad.targetDir, alias))
    IN [w1 EXCEPT !.ignore.gitignore = removeIgnoreEntry(@, IgnoreLine(ad, alias)).file]

unlinkEntry(w, ad, alias) ==
    LET w1 == unlinkRemove(w, Path(ad.targetDir, alias))
        ignoreEntry == IgnoreLine(ad, alias)
    IN [w1 EXCEPT
          !.ignore.gitignore = removeIgnoreEntry(@, ignoreEntry).file,
          !.ignore.exclude = removeIgnoreEntry(@, ignoreEntry).file]

\* How the git commands of one importEntry call end: "ok", or the command that
\* exits non-zero ("add", "commit", "push").
GitResults == {"ok", "add", "commit", "push"}

\* fs.copy(targetPath, destPath): a file replaces what is there; a directory
\* copied onto a directory keeps the files the destination already had.
fsCopy(dst, orig) ==
    IF dst.kind = "dir" /\ orig.kind = "dir" /\ dst.data # orig.data
    THEN RepoEnt("dir", "merged", FALSE)
    ELSE RepoEnt(orig.kind, orig.data, FALSE)

\* importCopyAndCommit with every git command taken to have succeeded.
importCopyIgnoringGit(w, targetPath, destPath, push, git) ==
    [w |-> [w EXCEPT !.repo[destPath] =
                [fsCopy(w.repo[destPath], w.proj[targetPath]) EXCEPT !.committed = TRUE]],
     threw |-> FALSE, error |-> ""]

\* importEntry steps 5-7: copy into the repository, git add, git commit and,
\* when asked, git push. The world afterwards and whether a step threw.
importCopyAndCommit(w, targetPath, destPath, push, git) ==
    LET orig == w.proj[targetPath]
        copied == [w EXCEPT !.repo[destPath] = fsCopy(w.repo[destPath], orig)]
        committed == [copied EXCEPT !.repo[destPath].committed = TRUE]
    IN  IF git = "add" THEN [w |-> copied, threw |-> TRUE, error |-> "git add"]
        ELSE IF git = "commit" THEN [w |-> copied, threw |-> TRUE, error |-> "git commit"]
        ELSE IF push /\ git = "push" THEN [w |-> committed, threw |-> TRUE, error |-> "git push"]
        ELSE [w |-> committed, threw |-> FALSE, error |-> ""]

\* importEntry step 4 without the test.
importDestNeverBlocks(w, destPath, force) == FALSE

\* importEntry step 4: whether an existing destination stops the import.
importDestBlocks(w, destPath, force) == repoPathExists(w, destPath) /\ ~force

importEntry(w, ad, req, force, push, git) ==
    LET targetPath == Path(ad.targetDir, req.name)
        repoConfig == getRepoSourceConfig(w)
        sourceDir == getSourceDir(repoConfig, ad.tool, ad.subtype, ad.defaultSourceDir)
        destPath == Path(sourceDir, req.name)
        \* fs.remove(destPath) under --force
        w1 == [w EXCEPT !.repo[destPath] = NoRepoEnt]
        done == importCopyAndCommit(w1, targetPath, destPath, push, git)
        \* fs.remove(targetPath)
        w2 == [done.w EXCEPT !.proj[targetPath] = NoEnt]
    IN  IF ~projPathExists(w, targetPath) THEN Thrown(w, "NotFound")
        ELSE IF isSymbolicLink(w, targetPath) THEN Thrown(w, "AlreadyManaged")
        ELSE IF importDestBlocks(w, destPath, force) THEN Thrown(w, "AlreadyExists")
        ELSE IF done.threw THEN Thrown(done.w, done.error)
        ELSE linkEntry(w2, ad, req)

\* ---------------------------------------------------------------- command handlers

\* The tree linkEntry finds at repo.path: the clone, or an empty directory
\* where git clone failed.
treeAt(w, repoConfig) ==
    IF repoConfig.url = GoneUrl THEN [p \in DOMAIN w.repo |-> NoRepoEnt] ELSE w.repo

\* adapter.link with options.repo: linkEntry reads the tree at repo.path.
linkFrom(w, ad, repoConfig, req) ==
    LET r == linkEntry([w EXCEPT !.repo = treeAt(w, repoConfig)], ad, req)
    IN [r EXCEPT !.w.repo = w.repo]

\* handleAdd without its .gitignore line for the private config file.
ignoreLocalConfigSkipped(w, isLocal) == w

\* The .gitignore line handleAdd and handleImport add for a private config.
ignoreLocalConfig(w, isLocal) ==
    IF isLocal
    THEN [w EXCEPT !.ignore.gitignore =
             addIgnoreEntry(@, LOCAL_CONFIG_LINE, HEADER_LOCAL_CONFIG).file]
    ELSE w

\* What a command handler hands back: an engine outcome and `migrated`.
Handled(o, w, migrated) ==
    [w |-> w, threw |-> o.threw, error |-> o.error, sourceName |-> o.sourceName,
     targetName |-> o.targetName, linked |-> o.linked, migrated |-> migrated]

\* handleAdd recording the source name alone, without depAlias.
handleAddRecordNoAlias(ad, isLocal, result) ==
    LET dep == addDependencyGeneric(result.w.cfg, ad.configPath, result.sourceName,
                                    RepoUrl, NoStr, isLocal)
        w1 == [result.w EXCEPT !.cfg = dep.cfg]
    IN Handled(result, ignoreLocalConfig(w1, isLocal), dep.migrated)

\* handleAdd after adapter.link returned `result`.
handleAddRecord(ad, isLocal, result) ==
    LET depAlias == IF result.targetName = result.sourceName
                    THEN NoStr ELSE result.targetName
        dep == addDependencyGeneric(result.w.cfg, ad.configPath, result.sourceName,
                                    RepoUrl, depAlias, isLocal)
        w1 == [result.w EXCEPT !.cfg = dep.cfg]
    IN Handled(result, ignoreLocalConfig(w1, isLocal), dep.migrated)

\* handleAdd recording the dependency whether or not adapter.link threw.
handleAddAlwaysRecords(w, ad, isLocal, name, alias) ==
    LET result == linkEntry(w, ad, Req(name, alias, isLocal)) IN
    IF result.threw
    THEN handleAddRecord(ad, isLocal, [result EXCEPT !.sourceName = name,
                                                     !.targetName = OrElse(alias, name)])
    ELSE handleAddRecord(ad, isLocal, result)

handleAdd(w, ad, isLocal, name, alias) ==
    LET result == linkEntry(w, ad, Req(name, alias, isLocal)) IN
    IF result.threw THEN Handled(result, result.w, FALSE)
    ELSE handleAddRecord(ad, isLocal, result)

handleRemove(w, ad, alias) ==
    LET w1 == unlinkEntry(w, ad, alias)
        dep == removeDependencyGeneric(w1.cfg, ad.configPath, alias)
    IN [w |-> [w1 EXCEPT !.cfg = dep.cfg], removedFrom |-> dep.removedFrom,
        migrated |-> dep.migrated]

handleImport(w, ad, isLocal, name, force, push, git) ==
    LET result == importEntry(w, ad, Req(name, NoStr, isLocal), force, push, git)
        dep == addDependencyGeneric(result.w.cfg, ad.configPath, name, RepoUrl,
                                    NoStr, isLocal)
        w1 == [result.w EXCEPT !.cfg = dep.cfg]
    IN  IF result.threw THEN Handled(result, result.w, FALSE)
        ELSE Handled(result, ignoreLocalConfig(w1, isLocal), dep.migrated)

\* install.getLocalEntries
getLocalEntries(c, ad) ==
    IF getConfigSource(c) = "new"
    THEN (IF c.local.exists THEN c.local.body[ad.configPath] ELSE <<>>)
    ELSE IF c.legacyLocal.exists /\ ad.configPath = <<"cursor", "rules">>
         THEN c.legacyLocal.rules
         ELSE <<>>

\* The loop of installEntriesForAdapter over Object.entries(entries), with
\* the repositories known so far in `repos`. The loop ends at the first entry
\* whose repository cannot be cloned or whose link throws.
\* The install loop ending at the first entry that is not linked.
RECURSIVE installLoopStopAtSkip(_, _, _, _, _)
installLoopStopAtSkip(w, ad, entries, localEntries, repos) ==
    IF entries = <<>> THEN [w |-> w, threw |-> FALSE, error |-> ""]
    ELSE LET e == parseConfigEntry(Head(entries).key, Head(entries).val)
             found == findOrCreateRepo(w, repos, e.repoUrl)
             isLocal == objHas(localEntries, Head(entries).key)
             r == linkFrom(found.w, ad, found.repo, Req(e.entryName, e.alias, isLocal))
         IN IF found.threw THEN [w |-> found.w, threw |-> TRUE, error |-> "clone"]
            ELSE IF r.threw \/ ~r.linked
            THEN [w |-> r.w, threw |-> r.threw, error |-> r.error]
            ELSE installLoopStopAtSkip(r.w, ad, Tail(entries), localEntries, found.repos)

\* The install loop going on to the next entry after one that throws.
RECURSIVE installLoopKeepGoing(_, _, _, _, _)
installLoopKeepGoing(w, ad, entries, localEntries, repos) ==
    IF entries = <<>> THEN [w |-> w, threw |-> FALSE, error |-> ""]
    ELSE LET e == parseConfigEntry(Head(entries).key, Head(entries).val)
             found == findOrCreateRepo(w, repos, e.repoUrl)
             isLocal == objHas(localEntries, Head(entries).key)
             r == linkFrom(found.w, ad, found.repo, Req(e.entryName, e.alias, isLocal))
             rest == installLoopKeepGoing(IF found.threw THEN found.w ELSE r.w, ad,
                                          Tail(entries), localEntries, found.repos)
         IN IF found.threw THEN [w |-> rest.w, threw |-> TRUE, error |-> "clone"]
            ELSE IF r.threw THEN [w |-> rest.w, threw |-> TRUE, error |-> r.error]
            ELSE rest

RECURSIVE installLoop(_, _, _, _, _)
installLoop(w, ad, entries, localEntries, repos) ==
    IF entries = <<>> THEN [w |-> w, threw |-> FALSE, error |-> ""]
    ELSE LET e == parseConfigEntry(Head(entries).key, Head(entries).val)
             found == findOrCreateRepo(w, repos, e.repoUrl)
             isLocal == objHas(localEntries, Head(entries).key)
             r == linkFrom(found.w, ad, found.repo, Req(e.entryName, e.alias, isLocal))
         IN IF found.threw THEN [w |-> found.w, threw |-> TRUE, error |-> "clone"]
            ELSE IF r.threw THEN [w |-> r.w, threw |-> TRUE, error |-> r.error]
            ELSE installLoop(r.w, ad, Tail(entries), localEntries, found.repos)

installEntriesForAdapter(w, ad) ==
    LET config == getCombinedProjectConfig(w.cfg)
        entries == config[ad.configPath]
    IN installLoop(w, ad, entries, getLocalEntries(w.cfg, ad), getConfig(w).repos)

\* index.installCursorRules: the same loop over config.cursor.rules, linking
\* with linkRule.
installCursorRules(w) ==
    LET rules == getCombinedProjectConfig(w.cfg)[cursorRulesAdapter.configPath]
        source == getConfigSource(w.cfg)
        localCursorRules ==
            IF source = "new"
            THEN (IF w.cfg.local.exists
                  THEN w.cfg.local.body[cursorRulesAdapter.configPath] ELSE <<>>)
            ELSE (IF w.cfg.legacyLocal.exists THEN w.cfg.legacyLocal.rules ELSE <<>>)
    IN installLoop(w, cursorRulesAdapter, rules, localCursorRules, getConfig(w).repos)

\* What an install function leaves: the world, and whether a link threw.
Installed(w, threw, error) == [w |-> w, threw |-> threw, error |-> error]

\* index.installCursorCommands, the loop over Object.entries(commands): each
\* entry is linked and then recorded again with addCursorCommandDependency.
RECURSIVE installCommandsLoop(_, _, _)
installCommandsLoop(w, entries, localCommands) ==
    IF entries = <<>> THEN Installed(w, FALSE, "")
    ELSE LET e == parseConfigEntry(Head(entries).key, Head(entries).val)
             isLocal == objHas(localCommands, Head(entries).key)
             \* linkCursorCommand
             r == linkEntry(w, cursorCommandsAdapter, Req(e.entryName, e.alias, isLocal))
             depAlias == IF r.targetName = r.sourceName THEN NoStr ELSE r.targetName
             dep == addDependencyGeneric(r.w.cfg, cursorCommandsAdapter.configPath,
                                         r.sourceName, e.repoUrl, depAlias, isLocal)
         IN IF r.threw THEN Installed(r.w, TRUE, r.error)
            ELSE installCommandsLoop([r.w EXCEPT !.cfg = dep.cfg], Tail(entries),
                                     localCommands)

\* index.installCursorCommands
installCursorCommands(w) ==
    LET commands == getCombinedProjectConfig(w.cfg)[cursorCommandsAdapter.configPath]
        localCommands == IF getConfigSource(w.cfg) = "new" /\ w.cfg.local.exists
                         THEN w.cfg.local.body[cursorCommandsAdapter.configPath]
                         ELSE <<>>
    IN installCommandsLoop(w, commands, localCommands)

\* index.installCopilotInstructions, the loop over Object.entries(instructions):
\* linkCopilotInstruction is called without isLocal, which defaults to false.
RECURSIVE installInstructionsLoop(_, _)
installInstructionsLoop(w, entries) ==
    IF entries = <<>> THEN Installed(w, FALSE, "")
    ELSE LET e == parseConfigEntry(Head(entries).key, Head(entries).val)
             r == linkEntry(w, copilotInstructionsAdapter,
                            Req(e.entryName, e.alias, FALSE))
         IN IF r.threw THEN Installed(r.w, TRUE, r.error)
            ELSE installInstructionsLoop(r.w, Tail(entries))

\* index.installCopilotInstructions
installCopilotInstructions(w) ==
    installInstructionsLoop(
        w, getCombinedProjectConfig(w.cfg)[copilotInstructionsAdapter.configPath])

\* ---------------------------------------------------------------- state machine

\* The record of a command: its arguments and what it returned.
Last(op, ad, name, alias, isLocal, force, push, git, o, migrated) ==
    [op |-> op, ad |-> ad.name, name |-> name, alias |-> alias, isLocal |-> isLocal,
     force |-> force, push |-> push, git |-> git, threw |-> o.threw,
     error |-> o.error, sourceName |-> o.sourceName, targetName |-> o.targetName,
     linked |-> o.linked, migrated |-> migrated, again |-> FALSE,
     returned |-> FALSE]

\* Whether the call l repeats the call before it: the same operation with
\* identical arguments.
SameCall(before, l) ==
    /\ l.op = before.op /\ l.ad = before.ad
    /\ l.name = before.name /\ l.alias = before.alias
    /\ l.isLocal = before.isLocal /\ l.force = before.force /\ l.push = before.push

NoAdapter == [name |-> ""]

NoResult == [threw |-> FALSE, error |-> "", sourceName |-> NoStr,
             targetName |-> NoStr, linked |-> FALSE]

Event(op) == Last(op, NoAdapter, NoStr, NoStr, FALSE, FALSE, FALSE, "ok", NoResult, FALSE)

\* The rules repository as first cloned: two rule directories, two command
\* files, and two instruction files with different suffixes.
InitRepo ==
    [p \in RepoPaths |->
        IF p.dir = cursorRulesAdapter.defaultSourceDir /\ p.name \in BareNames
        THEN RepoEnt("dir", "upstream", TRUE)
        ELSE IF p.dir = cursorCommandsAdapter.defaultSourceDir /\ p.name \in BareNames
        THEN RepoEnt("file", "upstream", TRUE)
        ELSE IF p.dir = copilotInstructionsAdapter.defaultSourceDir
                /\ p.name \in {<<"a">> \o SUFFIX_INSTRUCTIONS_MD, <<"b">> \o SUFFIX_MD}
        THEN RepoEnt("file", "upstream", TRUE)
        ELSE NoRepoEnt]

\* A project with no dependency file and no link yet.
Init ==
    /\ proj = [p \in ProjPaths |-> NoEnt]
    /\ projDirs = {}
    /\ repo = InitRepo
    /\ ignore = [gitignore |-> NoFile, exclude |-> NoFile]
    /\ cfg = [main |-> NoConfigFile, local |-> NoConfigFile,
              legacyMain |-> NoLegacyFile, legacyLocal |-> NoLegacyFile]
    /\ gitInfo \in BOOLEAN
    /\ repoFile = NoRepoFile
    /\ adapterRegistry = DefaultAdapterRegistry
    /\ configDir = ConfiguredHome
    /\ clock = 1
    /\ invocations = NoInvocations
    /\ last = Event("init")
    /\ ops = 0

\* One command or event, while fewer than max have run: the world it leaves
\* and its record.
Step(max, w, l) ==
    /\ ops < max
    /\ ops' = ops + 1
    /\ proj' = w.proj
    /\ projDirs' = w.projDirs
    /\ repo' = w.repo
    /\ ignore' = w.ignore
    /\ cfg' = w.cfg
    /\ gitInfo' = w.gitInfo
    /\ repoFile' = w.repoFile
    /\ adapterRegistry' = w.adapterRegistry
    /\ configDir' = w.configDir
    /\ clock' = w.clock
    /\ invocations' = invocations
    /\ last' = [l EXCEPT !.again = SameCall(last, l)]

\* The paths of the repository that upstream changes: an entry is added or
\* deleted there by the git pull of cloneOrUpdateRepo.
PullPaths ==
    {Path(cursorRulesAdapter.defaultSourceDir, n) : n \in BareNames}
    \cup {Path(copilotInstructionsAdapter.defaultSourceDir, <<"a">> \o s) :
            s \in {SUFFIX_MD, SUFFIX_INSTRUCTIONS_MD}}

RepoPull(max) ==
    \E p \in PullPaths :
        LET kind == IF p.dir = cursorRulesAdapter.defaultSourceDir THEN "dir" ELSE "file"
            e == IF repo[p].kind = "none" THEN RepoEnt(kind, "upstream", TRUE)
                 ELSE NoRepoEnt
        IN /\ repo[p].kind # "none" => repo[p].committed
           /\ Step(max, [World EXCEPT !.repo[p] = e], Event("pull"))

\* The user writes a file or directory of their own where links go.
UserCreates(max) ==
    \E ad \in Adapters : \E name \in InputNames(ad) :
        LET p == Path(ad.targetDir, name) IN
        /\ proj[p].kind = "none"
        /\ Step(max, [World EXCEPT !.proj[p] = Real(KindOf(ad), "user"),
                              !.projDirs = @ \cup {ad.targetDir}],
                Last("create", ad, name, NoStr, FALSE, FALSE, FALSE, "ok", NoResult, FALSE))

LinkEntry ==
    \E ad \in Adapters : \E name \in InputNames(ad) :
    \E alias \in InputAliases : \E isLocal \in BOOLEAN :
        LET o == linkEntry(World, ad, Req(name, alias, isLocal)) IN
        Step(MaxOps, o.w, Last("link", ad, name, alias, isLocal, FALSE, FALSE, "ok", o, FALSE))

UnlinkEntry ==
    \E ad \in Adapters : \E alias \in InputNames(ad) :
        Step(MaxOps, unlinkEntry(World, ad, alias),
             Last("unlink", ad, NoStr, alias, FALSE, FALSE, FALSE, "ok", NoResult, FALSE))

\* The git outcomes that can happen with and without --push.
GitRuns(push) == IF push THEN GitResults ELSE GitResults \ {"push"}

ImportEntry ==
    \E ad \in Adapters : \E name \in InputNames(ad) :
    \E force \in BOOLEAN : \E push \in BOOLEAN : \E git \in GitRuns(push) :
        LET o == importEntry(World, ad, Req(name, NoStr, FALSE), force, push, git) IN
        Step(MaxOps, o.w, Last("import", ad, name, NoStr, FALSE, force, push, git, o, FALSE))

Add ==
    \E ad \in Adapters : \E name \in InputNames(ad) :
    \E alias \in InputAliases : \E isLocal \in BOOLEAN :
        LET h == handleAdd(World, ad, isLocal, name, alias) IN
        Step(MaxCmds, h.w, Last("add", ad, name, alias, isLocal, FALSE, FALSE, "ok", h, h.migrated))

Remove ==
    \E ad \in Adapters : \E alias \in InputNames(ad) :
        LET h == handleRemove(World, ad, alias) IN
        Step(MaxCmds, h.w, Last("remove", ad, NoStr, alias, FALSE, FALSE, FALSE, "ok",
                       NoResult, h.migrated))

Install ==
    \E ad \in Adapters :
        LET r == installEntriesForAdapter(World, ad) IN
        Step(MaxCmds, r.w, Last("install", ad, NoStr, NoStr, FALSE, FALSE, FALSE, "ok",
                       [NoResult EXCEPT !.threw = r.threw, !.error = r.error], FALSE))

Import ==
    \E ad \in Adapters : \E name \in InputNames(ad) :
    \E isLocal \in BOOLEAN : \E force \in BOOLEAN : \E git \in GitRuns(FALSE) :
        LET h == handleImport(World, ad, isLocal, name, force, FALSE, git) IN
        Step(MaxCmds, h.w, Last("import", ad, name, NoStr, isLocal, force, FALSE, git, h,
                       h.migrated))

\* The record of an install of one kind of entry.
InstallRecord(ad, r) ==
    Last("install", ad, NoStr, NoStr, FALSE, FALSE, FALSE, "ok",
         [NoResult EXCEPT !.threw = r.threw, !.error = r.error], FALSE)

\* `ais cursor commands install`
InstallCursorCommands ==
    LET r == installCursorCommands(World) IN
    Step(MaxCmds, r.w, InstallRecord(cursorCommandsAdapter, r))

\* `ais copilot instructions install`
InstallCopilotInstructions ==
    LET r == installCopilotInstructions(World) IN
    Step(MaxCmds, r.w, InstallRecord(copilotInstructionsAdapter, r))

\* The dependency files a project is checked out with: none; legacy files
\* (public, private, both, both with the same alias); current-format files
\* written by hand, with an object record that leaves out `rule` and a private
\* section.
LegacyFile(rules) == [exists |-> TRUE, rules |-> rules]

ConfigFile(section, entries) ==
    [exists |-> TRUE, body |-> [EmptyBody EXCEPT ![section] = entries], top |-> NoTop]

NoConfig ==
    [main |-> NoConfigFile, local |-> NoConfigFile,
     legacyMain |-> NoLegacyFile, legacyLocal |-> NoLegacyFile]

CheckedOutConfigs ==
    { NoConfig,
      [NoConfig EXCEPT
         !.legacyMain = LegacyFile(<< [key |-> <<"a">>, val |-> UrlEntry(RepoUrl)] >>),
         !.legacyLocal = LegacyFile(<< [key |-> <<"b">>,
                                        val |-> ObjEntry(RepoUrl, <<"a">>)] >>)],
      [NoConfig EXCEPT
         !.legacyLocal = LegacyFile(<< [key |-> <<"b">>, val |-> UrlEntry(RepoUrl)] >>)],
      [NoConfig EXCEPT
         !.legacyMain = LegacyFile(<< [key |-> <<"a">>, val |-> UrlEntry(RepoUrl)] >>),
         !.legacyLocal = LegacyFile(<< [key |-> <<"a">>,
                                        val |-> ObjEntry(RepoUrl, <<"b">>)] >>)],
      [NoConfig EXCEPT
         !.main = ConfigFile(cursorCommandsAdapter.configPath,
                             << [key |-> <<"a">>, val |-> ObjEntry(RepoUrl, NoStr)],
                                [key |-> <<"b">>, val |-> UrlEntry(RepoUrl)] >>),
         !.local = ConfigFile(cursorCommandsAdapter.configPath,
                              << [key |-> <<"b">>, val |-> UrlEntry(RepoUrl)] >>)] }

\* A project just checked out: its dependency files, and no link yet.
InitConfig ==
    /\ proj = [p \in ProjPaths |-> NoEnt]
    /\ projDirs = {}
    /\ repo = InitRepo
    /\ ignore = [gitignore |-> NoFile, exclude |-> NoFile]
    /\ cfg \in CheckedOutConfigs
    /\ gitInfo \in BOOLEAN
    /\ repoFile = NoRepoFile
    /\ adapterRegistry = DefaultAdapterRegistry
    /\ configDir = ConfiguredHome
    /\ clock = 1
    /\ invocations = NoInvocations
    /\ last = Event("init")
    /\ ops = 0

\* The commands of the CLI run on a checked-out project.
NextConfig ==
    \/ Add \/ Remove \/ Install
    \/ InstallCursorCommands \/ InstallCopilotInstructions
    \/ UserCreates(MaxCmds)

SpecConfig == InitConfig /\ [][NextConfig]_vars

\* The commands of the CLI, with the environment's events.
Next ==
    Add \/ Remove \/ Install \/ Import \/ UserCreates(MaxCmds) \/ RepoPull(MaxCmds)

Spec == Init /\ [][Next]_vars

\* The engine's link and unlink operations called directly.
NextLink == LinkEntry \/ UnlinkEntry \/ UserCreates(MaxOps) \/ RepoPull(MaxOps)

SpecLink == Init /\ [][NextLink]_vars

\* The engine's import operation called directly.
NextImport == ImportEntry \/ UserCreates(MaxOps) \/ RepoPull(MaxOps)

SpecImport == Init /\ [][NextImport]_vars

\* ---------------------------------------------------------------- configured repositories
\* linkEntry and importEntry run against rules repositories that carry an
\* ai-rules-sync.json of their own.

NoDirs == [s \in Sections |-> Undefined]

NoValues == [s \in Sections |-> NoValue]

\* The repository configurations: none; rootPath alone; sourceDir, with and
\* without rootPath; the flat form, next to dependency records, with an empty
\* and with a set rootPath; a project's dependency records alone; sourceDir
\* next to a flat string.
RepoConfigFiles ==
    {NoRepoFile,
     RepoFile(Str("root"), FALSE, NoDirs, NoValues),
     RepoFile(Undefined, TRUE,
              [NoDirs EXCEPT ![cursorRulesAdapter.configPath] = Str("custom")], NoValues),
     RepoFile(Str("root"), TRUE,
              [NoDirs EXCEPT ![copilotInstructionsAdapter.configPath] = Str("custom"),
                             ![cursorCommandsAdapter.configPath] = Str("custom")],
              NoValues),
     RepoFile(Undefined, FALSE, NoDirs,
              [NoValues EXCEPT ![cursorRulesAdapter.configPath] = StringValue("custom"),
                               ![copilotInstructionsAdapter.configPath] = ObjectValue]),
     RepoFile(Str(""), FALSE, NoDirs,
              [NoValues EXCEPT ![copilotInstructionsAdapter.configPath] = StringValue("custom")]),
     RepoFile(Undefined, FALSE, NoDirs,
              [NoValues EXCEPT ![cursorRulesAdapter.configPath] = ObjectValue,
                               ![cursorCommandsAdapter.configPath] = ObjectValue]),
     RepoFile(Undefined, TRUE,
              [NoDirs EXCEPT ![cursorRulesAdapter.configPath] = Str("custom")],
              [NoValues EXCEPT ![copilotInstructionsAdapter.configPath] = StringValue("custom")]),
     RepoFile(Str("root"), FALSE, NoDirs,
              [NoValues EXCEPT ![cursorCommandsAdapter.configPath] = StringValue("custom"),
                               ![cursorRulesAdapter.configPath] = ObjectValue])}

\* The directories of those repositories that hold entries.
ConfiguredDirs ==
    SourceDirs \cup {joinDir("root", d) : d \in SourceDirs} \cup {"custom", "root/custom"}

\* Every directory holds the rule directory a and the file a.md.
ConfiguredRepo ==
    [p \in {Path(d, n) : d \in ConfiguredDirs, n \in Names} |->
        IF p.name = <<"a">> THEN RepoEnt("dir", "upstream", TRUE)
        ELSE IF p.name = <<"a">> \o SUFFIX_MD THEN RepoEnt("file", "upstream", TRUE)
        ELSE NoRepoEnt]

InitSource ==
    /\ proj = [p \in ProjPaths |-> NoEnt]
    /\ projDirs = {}
    /\ repo = ConfiguredRepo
    /\ ignore = [gitignore |-> NoFile, exclude |-> NoFile]
    /\ cfg = NoConfig
    /\ gitInfo = TRUE
    /\ repoFile \in RepoConfigFiles
    /\ adapterRegistry = DefaultAdapterRegistry
    /\ configDir = ConfiguredHome
    /\ clock = 1
    /\ invocations = NoInvocations
    /\ ops = 0
    /\ last = Event("init")

LinkConfigured ==
    \E ad \in Registry : \E name \in BareNames :
        LET o == linkEntry(World, ad, Req(name, NoStr, FALSE)) IN
        Step(MaxCmds, o.w, Last("link", ad, name, NoStr, FALSE, FALSE, FALSE, "ok", o, FALSE))

ImportConfigured ==
    \E ad \in Adapters : \E name \in BareNames : \E force \in BOOLEAN :
        LET o == importEntry(World, ad, Req(name, NoStr, FALSE), force, FALSE, "ok") IN
        Step(MaxCmds, o.w, Last("import", ad, name, NoStr, FALSE, force, FALSE, "ok", o, FALSE))

NextSource == LinkConfigured \/ ImportConfigured \/ UserCreates(MaxCmds)

SpecSource == InitSource /\ [][NextSource]_vars

\* ---------------------------------------------------------------- installs from several repositories
\* A project whose dependency file names several repositories, installed on a
\* machine that knows none, one or two of them.

\* The records of one section: for each of the keys a and b, no record or a
\* record naming one of the repositories.
RecordsOver(key, urls) == {<<>>} \cup { <<[key |-> key, val |-> UrlEntry(u)]>> : u \in urls }

SharedRules ==
    { ra \o rb : ra \in RecordsOver(<<"a">>, RepoUrls), rb \in RecordsOver(<<"b">>, RepoUrls) }

SharedInstructions ==
    { <<>>,
      << [key |-> <<"a">>, val |-> UrlEntry(TeamUrl)],
         [key |-> <<"b">>, val |-> UrlEntry(MirrorUrl)] >>,
      << [key |-> <<"a">>, val |-> UrlEntry(MirrorUrl)],
         [key |-> <<"a">> \o SUFFIX_MD, val |-> UrlEntry(RepoUrl)],
         [key |-> <<"b">>, val |-> UrlEntry(TeamUrl)] >> }

SharedConfigs ==
    { [NoConfig EXCEPT
         !.main = [exists |-> TRUE, top |-> NoTop,
                   body |-> [EmptyBody EXCEPT ![cursorRulesAdapter.configPath] = rules,
                                              ![copilotInstructionsAdapter.configPath] = ins]]]
      : rules \in SharedRules, ins \in SharedInstructions }

\* The home directory of a new machine, of one that uses the rules repository,
\* and of one that was given the team's repository too and has no clone of it.
Homes ==
    { Home("", <<>>, {}),
      ConfiguredHome,
      Home("rules", <<[key |-> "rules", val |-> RepoConfig("rules", RepoUrl)],
                      [key |-> "team", val |-> RepoConfig("team", TeamUrl)]>>,
           {"repos/rules"}) }

InitRepos ==
    /\ proj = [p \in ProjPaths |-> NoEnt]
    /\ projDirs = {}
    /\ repo = InitRepo
    /\ ignore = [gitignore |-> NoFile, exclude |-> NoFile]
    /\ cfg \in SharedConfigs
    /\ gitInfo = TRUE
    /\ repoFile = NoRepoFile
    /\ adapterRegistry = DefaultAdapterRegistry
    /\ configDir \in Homes
    /\ clock = 1
    /\ invocations = NoInvocations
    /\ last = Event("init")
    /\ ops = 0

\* installCursorRules called for the project.
InstallCursorRules ==
    LET r == installCursorRules(World) IN
    Step(MaxCmds, r.w, [InstallRecord(cursorRulesAdapter, r) EXCEPT !.op = "installCursorRules"])

NextRepos == Install \/ InstallCursorRules

SpecRepos == InitRepos /\ [][NextRepos]_vars

\* ---------------------------------------------------------------- adapter registry
\* register and getAdapter called on the global registry.

\* The adapters handed to register: the README's new adapter and the
\* built-in ones once more.
RegisteredAdapters == Registry \cup {myToolAdapter}

Tools == {a.tool : a \in RegisteredAdapters}

Subtypes == {a.subtype : a \in RegisteredAdapters}

Register ==
    \E adapter \in RegisteredAdapters :
        Step(MaxOps, [World EXCEPT !.adapterRegistry = register(@, adapter)],
             [Event("register") EXCEPT !.ad = adapter.name])

GetAdapter ==
    \E tool \in Tools : \E subtype \in Subtypes :
        LET r == getAdapter(adapterRegistry, tool, subtype) IN
        Step(MaxOps, World,
             [Event("getAdapter") EXCEPT !.name = <<tool, subtype>>, !.threw = r.threw,
                                         !.ad = r.adapter.name])

NextRegistry == Register \/ GetAdapter

SpecRegistry == Init /\ [][NextRegistry]_vars

\* ---------------------------------------------------------------- dependency records
\* project-config's addDependencyGeneric and removeDependencyGeneric called
\* directly, as the wrappers addCursorDependency, addCopilotDependency and the
\* adapters' addDependency / removeDependency do.

AddDependency ==
    \E ad \in Adapters : \E name \in BareNames : \E alias \in InputAliases :
    \E isLocal \in BOOLEAN :
        LET dep == addDependencyGeneric(cfg, ad.configPath, name, RepoUrl, alias, isLocal) IN
        Step(MaxCmds, [World EXCEPT !.cfg = dep.cfg],
             Last("addDependency", ad, name, alias, isLocal, FALSE, FALSE, "ok",
                  NoResult, dep.migrated))

RemoveDependency ==
    \E ad \in Adapters : \E alias \in BareNames :
        LET dep == removeDependencyGeneric(cfg, ad.configPath, alias) IN
        Step(MaxCmds, [World EXCEPT !.cfg = dep.cfg],
             Last("removeDependency", ad, NoStr, alias, FALSE, FALSE, FALSE, "ok",
                  NoResult, dep.migrated))

NextDeps == AddDependency \/ RemoveDependency

\* Dependency files with top-level fields and records in two sections: the
\* files of a project that is a rules repository too.
RepositoryProjectConfigs ==
    { [NoConfig EXCEPT
         !.main = [exists |-> TRUE,
                   top |-> [rootPath |-> Str("root"), sourceDir |-> Str("custom")],
                   body |-> [EmptyBody EXCEPT
                               ![cursorRulesAdapter.configPath] =
                                  << [key |-> <<"a">>, val |-> UrlEntry(RepoUrl)],
                                     [key |-> <<"b">>, val |-> ObjEntry(RepoUrl, <<"a">>)] >>,
                               ![copilotInstructionsAdapter.configPath] =
                                  << [key |-> <<"a">>, val |-> UrlEntry(RepoUrl)] >>]],
         !.local = [exists |-> TRUE,
                    top |-> [rootPath |-> Str(""), sourceDir |-> Undefined],
                    body |-> [EmptyBody EXCEPT
                                ![cursorRulesAdapter.configPath] =
                                   << [key |-> <<"b">>, val |-> UrlEntry(RepoUrl)] >>]]] }

InitDeps ==
    /\ proj = [p \in ProjPaths |-> NoEnt]
    /\ projDirs = {}
    /\ repo = InitRepo
    /\ ignore = [gitignore |-> NoFile, exclude |-> NoFile]
    /\ cfg \in CheckedOutConfigs \cup RepositoryProjectConfigs
    /\ gitInfo \in BOOLEAN
    /\ repoFile = NoRepoFile
    /\ adapterRegistry = DefaultAdapterRegistry
    /\ configDir = ConfiguredHome
    /\ clock = 1
    /\ invocations = NoInvocations
    /\ last = Event("init")
    /\ ops = 0

SpecDeps == InitDeps /\ [][NextDeps]_vars

\* ---------------------------------------------------------------- ignore file edits
\* utils.addIgnoreEntry and utils.removeIgnoreEntry called on .gitignore files
\* as a user may have written them.

\* ---------------------------------------------------------------- adapter routing
\* adapters/index.findAdapterForAlias on the combined project config, in
\* which mergeCombined makes every section an object.

\* Property names every object inherits from Object.prototype.
ObjectPrototypeNames == {<<"constructor">>}

\* Whether `section?.[alias]` is truthy: an own member whose value is an
\* object or a non-empty string, or an inherited function.
propTruthy(o, alias) ==
    IF objHas(o, alias)
    THEN \E i \in DOMAIN o :
            o[i].key = alias /\ (o[i].val.isObj \/ o[i].val.url # "")
    ELSE alias \in ObjectPrototypeNames

\* The order of the `if` statements of findAdapterForAlias.
RoutingOrder == <<cursorRulesAdapter, cursorCommandsAdapter, copilotInstructionsAdapter>>

RECURSIVE findAdapterFrom(_, _, _)
findAdapterFrom(order, config, alias) ==
    IF order = <<>> THEN [found |-> FALSE, adapter |-> NoAdapter, section |-> <<>>]
    ELSE IF propTruthy(config[Head(order).configPath], alias)
    THEN [found |-> TRUE, adapter |-> Head(order), section |-> Head(order).configPath]
    ELSE findAdapterFrom(Tail(order), config, alias)

findAdapterForAlias(config, alias) == findAdapterFrom(RoutingOrder, config, alias)

RoutedAliases == BareNames \cup ObjectPrototypeNames

FindAdapterForAlias ==
    \E alias \in RoutedAliases :
        LET r == findAdapterForAlias(getCombinedProjectConfig(cfg), alias) IN
        Step(MaxCmds, World,
             [Last("findAdapterForAlias", r.adapter, NoStr, alias, FALSE, FALSE, FALSE,
                   "ok", NoResult, FALSE) EXCEPT !.returned = r.found])

NextRouting == AddDependency \/ RemoveDependency \/ FindAdapterForAlias

SpecRouting == InitDeps /\ [][NextRouting]_vars

\* ---------------------------------------------------------------- concurrent invocations
\* Two processes of the tool call addDependencyGeneric on the same project.
\* Each await of the function is a point where the other process may run:
\* after migrateLegacyToNew, after readNewConfigForWrite, and after
\* writeNewConfig. The project has no legacy file, so migrateLegacyToNew only
\* looks which files exist and writes nothing.

ConcurrentConfigs ==
    {c \in CheckedOutConfigs \cup RepositoryProjectConfigs : ~hasAnyLegacyConfig(c)}

InitConcurrent ==
    /\ proj = [p \in ProjPaths |-> NoEnt]
    /\ projDirs = {}
    /\ repo = InitRepo
    /\ ignore = [gitignore |-> NoFile, exclude |-> NoFile]
    /\ cfg \in ConcurrentConfigs
    /\ gitInfo = TRUE
    /\ repoFile = NoRepoFile
    /\ adapterRegistry = DefaultAdapterRegistry
    /\ configDir = ConfiguredHome
    /\ clock = 1
    /\ invocations = NoInvocations
    /\ last = Event("init")
    /\ ops = 0

\* Everything but the dependency files and the calls under way.
rest == <<proj, projDirs, repo, ignore, gitInfo, repoFile, adapterRegistry,
          configDir, clock, last, ops>>

\* addDependencyGeneric is called and runs up to the end of migrateLegacyToNew.
CallAddDependency ==
    \E p \in Procs : \E ad \in Adapters : \E name \in BareNames :
    \E alias \in InputAliases : \E isLocal \in BOOLEAN :
        /\ invocations[p].pc = "idle"
        /\ cfg' = migrateLegacyToNew(cfg).cfg
        /\ invocations' = [invocations EXCEPT ![p] =
              [pc |-> "read", configPath |-> ad.configPath, name |-> name,
               alias |-> alias, isLocal |-> isLocal,
               config |-> [top |-> NoTop, body |-> EmptyBody]]]
        /\ UNCHANGED rest

\* readNewConfigForWrite answers, and the record is set in memory.
ReadNewConfigForWrite ==
    \E p \in Procs :
        /\ invocations[p].pc = "read"
        /\ invocations' = [invocations EXCEPT ![p] =
              [@ EXCEPT !.pc = "write",
                        !.config = setDependency(
                            readNewConfigForWrite(cfg, invocations[p].isLocal),
                            invocations[p].configPath, invocations[p].name,
                            RepoUrl, invocations[p].alias)]]
        /\ UNCHANGED <<cfg, rest>>

\* writeNewConfig writes the config held in memory.
WriteNewConfig ==
    \E p \in Procs :
        /\ invocations[p].pc = "write"
        /\ cfg' = writeNewConfig(cfg, invocations[p].isLocal, invocations[p].config)
        /\ invocations' = [invocations EXCEPT ![p] = [@ EXCEPT !.pc = "done"]]
        /\ UNCHANGED rest

NextConcurrent == CallAddDependency \/ ReadNewConfigForWrite \/ WriteNewConfig

SpecConcurrent == InitConcurrent /\ [][NextConcurrent]_vars

\* Lines of the .gitignore the project is checked out with.
MaxLines == 2

\* The entries the callers pass: `${adapter.targetDir}/${targetName}`, where
\* the target name is the alias given on the command line, here a, b and "b ".
IgnoreEntries ==
    {IgnoreLine(cursorRulesAdapter, <<"a">>), IgnoreLine(cursorRulesAdapter, <<"b">>),
     IgnoreLine(cursorRulesAdapter, <<"b", " ">>)}

\* The lines found in a .gitignore: the header, entries, and an entry a user
\* typed with blanks around it.
FileLines ==
    {HEADER_AI_RULES_SYNC, IgnoreLine(cursorRulesAdapter, <<"a">>),
     <<" ">> \o IgnoreLine(cursorRulesAdapter, <<"a">>) \o <<" ">>,
     IgnoreLine(cursorRulesAdapter, <<"b">>)}

\* The sequences of at most n lines, no two of them the same once trimmed.
DistinctLines(n) ==
    {s \in UNION {[1..k -> FileLines] : k \in 0..n} :
        \A i, j \in DOMAIN s : i # j => trim(s[i]) # trim(s[j])}

\* The .gitignore files: none, an empty one, and lines with or without a
\* newline at the end of the last one.
CheckedOutIgnoreFiles ==
    {NoFile, [exists |-> TRUE, lines |-> EmptyContent]}
    \cup {[exists |-> TRUE, lines |-> s] : s \in DistinctLines(MaxLines) \ {<<>>}}
    \cup {[exists |-> TRUE, lines |-> Append(s, NoStr)] : s \in DistinctLines(MaxLines) \ {<<>>}}

InitIgnore ==
    /\ proj = [p \in ProjPaths |-> NoEnt]
    /\ projDirs = {}
    /\ repo = InitRepo
    /\ ignore \in {[gitignore |-> f, exclude |-> NoFile] : f \in CheckedOutIgnoreFiles}
    /\ cfg = NoConfig
    /\ gitInfo = TRUE
    /\ repoFile = NoRepoFile
    /\ adapterRegistry = DefaultAdapterRegistry
    /\ configDir = ConfiguredHome
    /\ clock = 1
    /\ invocations = NoInvocations
    /\ ops = 0
    /\ last = Event("init")

AddIgnoreEntry ==
    \E entry \in IgnoreEntries : \E header \in {HEADER_AI_RULES_SYNC, NoStr} :
        LET r == addIgnoreEntry(ignore.gitignore, entry, header) IN
        Step(MaxOps, [World EXCEPT !.ignore.gitignore = r.file],
             [Event("addIgnore") EXCEPT !.name = entry, !.returned = r.added])

RemoveIgnoreEntry ==
    \E entry \in IgnoreEntries :
        LET r == removeIgnoreEntry(ignore.gitignore, entry) IN
        Step(MaxOps, [World EXCEPT !.ignore.gitignore = r.file],
             [Event("removeIgnore") EXCEPT !.name = entry, !.returned = r.removed])

NextIgnore == AddIgnoreEntry \/ RemoveIgnoreEntry

SpecIgnore == InitIgnore /\ [][NextIgnore]_vars

\* ---------------------------------------------------------------- properties

AdapterNamed(n) == CHOOSE a \in Registry : a.name = n

IsReal(e) == e.kind \in {"file", "dir"}

\* The step just taken is the command `op`.
Ran(op) == ops' = ops + 1 /\ last'.op = op

\* The source directory linkEntry and importEntry compute for an adapter.
SourceDirOf(ad) ==
    getSourceDir(getRepoSourceConfig(World), ad.tool, ad.subtype, ad.defaultSourceDir)

\* The target path a linkEntry call resolves in the current state (defined when
\* its source resolves).
TargetPathOf(ad, name, alias) ==
    Path(ad.targetDir,
         resolveTargetName(ad, name, alias,
                           resolveSource(World, ad, SourceDirOf(ad), name).suffix))

FileHasLine(f, line) == f.exists /\ \E i \in DOMAIN f.lines : trim(f.lines[i]) = line

\* C1: when linkEntry resolves its source and the target path holds a real file
\* or directory, the call changes nothing in the project (the entry stays, no
\* symlink appears), adds no ignore line, does not throw and returns
\* linked:false.
C1_LinkLeavesRealTarget ==
    [][Ran("link") =>
        LET ad == AdapterNamed(last'.ad)
            src == resolveSource(World, ad, SourceDirOf(ad), last'.name)
            tp == TargetPathOf(ad, last'.name, last'.alias)
        IN (src.ok /\ IsReal(proj[tp])) =>
              /\ proj' = proj
              /\ ignore' = ignore
              /\ ~last'.threw
              /\ ~last'.linked
              /\ last'.targetName = tp.name]_vars

\* A linkEntry call that found a real entry at its target and skipped it.
C1_Witness ==
    /\ last.op = "link"
    /\ ~last.threw /\ ~last.linked
    /\ IsReal(proj[Path(AdapterNamed(last.ad).targetDir, last.targetName)])
    /\ proj[Path(AdapterNamed(last.ad).targetDir, last.targetName)].data = "user"

\* C2: unlinkEntry leaves a real file or directory at targetDir/alias present
\* and unchanged.
C2_UnlinkKeepsRealEntry ==
    [][Ran("unlink") =>
        LET p == Path(AdapterNamed(last'.ad).targetDir, last'.alias)
        IN IsReal(proj[p]) => proj'[p] = proj[p]]_vars

\* C3: after add(name, alias) created a link, remove with the same alias string
\* (the name when no alias was given) leaves nothing at the link's target path,
\* no line for it in either ignore file and no record for it in either config
\* file.
C3_AddRemoveRoundTrip ==
    [][(Ran("remove") /\ last.op = "add" /\ last.linked /\ last'.ad = last.ad
          /\ last'.alias = OrElse(last.alias, last.name)) =>
        LET ad == AdapterNamed(last.ad)
            tp == Path(ad.targetDir, last.targetName)
            line == IgnoreLine(ad, last.targetName)
        IN /\ proj'[tp] = NoEnt
           /\ ~FileHasLine(ignore'.gitignore, line)
           /\ ~FileHasLine(ignore'.exclude, line)
           /\ ~objHas(readConfigFile(cfg'.main)[ad.configPath], last.targetName)
           /\ ~objHas(readConfigFile(cfg'.local)[ad.configPath], last.targetName)]_vars

\* C4: every alias with a dependency record in the project config has a
\* symbolic link, never a real file or directory and never nothing, at
\* targetDir/alias.
C4_RecordHasLink ==
    \A ad \in Adapters :
        LET entries == getCombinedProjectConfig(cfg)[ad.configPath]
        IN \A i \in DOMAIN entries :
              proj[Path(ad.targetDir, entries[i].key)].kind = "symlink"

C6_RelinkConverges ==
    [][Ran("link") =>
        LET ad == AdapterNamed(last'.ad)
            src == resolveSource(World, ad, SourceDirOf(ad), last'.name)
            tp == TargetPathOf(ad, last'.name, last'.alias)
        IN (src.ok /\ proj[tp].kind = "symlink") =>
              /\ ~last'.threw /\ last'.linked
              /\ proj'[tp] = Symlink(Path(SourceDirOf(ad), src.sourceName))]_vars

\* The project path and the repository path an importEntry call works on.
ImportTarget(l) == Path(AdapterNamed(l.ad).targetDir, l.name)

ImportDest(l) == Path(SourceDirOf(AdapterNamed(l.ad)), l.name)

\* C7: whenever importEntry deletes the real entry at targetDir/name, that path
\* holds afterwards a symbolic link to the copy at sourceDir/name in the
\* repository.
C7_ImportLeavesLink ==
    [][Ran("import") =>
        LET tp == ImportTarget(last')
        IN (IsReal(proj[tp]) /\ proj'[tp] # proj[tp]) =>
              proj'[tp] = Symlink(ImportDest(last'))]_vars

\* C8: importEntry deletes the original entry only when the copy is in the
\* repository and committed and no git command failed; when git add, git commit
\* or the requested git push fails, the call throws, the project is unchanged
\* and the repository holds the copy.
C8_ImportDeletesAfterCommit ==
    [][Ran("import") =>
        LET tp == ImportTarget(last')
            dest == ImportDest(last')
            failed == last'.git \in {"add", "commit"} \/ (last'.push /\ last'.git = "push")
        IN (IsReal(proj[tp]) /\ ~importDestBlocks(World, dest, last'.force)) =>
              /\ repo'[dest].kind = proj[tp].kind /\ repo'[dest].data = proj[tp].data
              /\ proj'[tp] # proj[tp] => (~failed /\ repo'[dest].committed)
              /\ failed => /\ last'.threw /\ proj' = proj
                           /\ repo'[dest].committed = (last'.git = "push")]_vars

\* An importEntry call whose git commit failed: the original is in the project
\* and its copy is uncommitted in the repository.
C8_Witness ==
    /\ last.op = "import" /\ last.threw /\ last.error = "git commit"
    /\ proj[ImportTarget(last)] = Real(KindOf(AdapterNamed(last.ad)), "user")
    /\ repo[ImportDest(last)] = RepoEnt(KindOf(AdapterNamed(last.ad)), "user", FALSE)

\* C9: importEntry throws and changes nothing in the project, the repository,
\* the ignore files or the config when targetDir/name is missing or a symbolic
\* link, or when the destination exists and force is not set; with force, an
\* existing destination is replaced by the copy of the project entry alone.
C9_ImportValidatesFirst ==
    [][Ran("import") =>
        LET tp == ImportTarget(last')
            dest == ImportDest(last')
            invalid == \/ proj[tp].kind \in {"none", "symlink"}
                       \/ (repo[dest].kind # "none" /\ ~last'.force)
        IN /\ invalid => /\ last'.threw
                         /\ last'.error \in {"NotFound", "AlreadyManaged", "AlreadyExists"}
                         /\ proj' = proj /\ projDirs' = projDirs /\ repo' = repo
                         /\ ignore' = ignore /\ cfg' = cfg
           /\ (IsReal(proj[tp]) /\ repo[dest].kind # "none" /\ last'.force) =>
                 /\ repo'[dest].kind = proj[tp].kind
                 /\ repo'[dest].data = proj[tp].data]_vars

\* An importEntry call without force stopped by the upstream entry at its
\* destination, which is still there, as is the original.
C9_Witness ==
    /\ last.op = "import" /\ last.threw /\ last.error = "AlreadyExists" /\ ~last.force
    /\ proj[ImportTarget(last)] = Real(KindOf(AdapterNamed(last.ad)), "user")
    /\ repo[ImportDest(last)] = RepoEnt(KindOf(AdapterNamed(last.ad)), "upstream", TRUE)

\* An importEntry call with force that replaced the upstream entry at its
\* destination by the copy of the original.
C9_WitnessForce ==
    /\ last.op = "import" /\ ~last.threw /\ last.force /\ last.linked
    /\ repo[ImportDest(last)] = RepoEnt(KindOf(AdapterNamed(last.ad)), "user", TRUE)
    /\ proj[ImportTarget(last)].kind = "symlink"

\* C10: when importEntry failed at git commit and is called again with the same
\* arguments, and git then succeeds, the call completes: it does not throw, the
\* copy is committed and the original is replaced by a link.
C10_ImportRetry ==
    [][(Ran("import") /\ last'.again /\ last.threw /\ last.error = "git commit"
          /\ last'.git = "ok") =>
          /\ ~last'.threw /\ last'.linked
          /\ repo'[ImportDest(last')].committed
          /\ proj'[ImportTarget(last')].kind = "symlink"]_vars

\* Whether a name ends in a suffix the file-mode adapter recognizes.
HasKnownSuffix(name) == endsWith(name, SUFFIX_INSTRUCTIONS_MD) \/ endsWith(name, SUFFIX_MD)

\* Whether the repository holds sourceDir/name.
InRepo(ad, name) == repo[Path(SourceDirOf(ad), name)].kind # "none"

\* C11: when the source directory holds both <name>.instructions.md and
\* <name>.md and linkEntry is given the bare <name>, it throws the ambiguity
\* error, whose message quotes both file names, and creates no link: the
\* project and the ignore files are unchanged.
C11_AmbiguousSuffixFails ==
    [][Ran("link") =>
        LET ad == AdapterNamed(last'.ad)
            name == last'.name
        IN (ad.mode = "file" /\ ~HasKnownSuffix(name)
               /\ InRepo(ad, name \o SUFFIX_INSTRUCTIONS_MD)
               /\ InRepo(ad, name \o SUFFIX_MD)) =>
              /\ last'.threw /\ last'.error = "AmbiguousSuffix"
              /\ resolveSource(World, ad, SourceDirOf(ad), name).named
                    = <<name \o SUFFIX_INSTRUCTIONS_MD, name \o SUFFIX_MD>>
              /\ proj' = proj /\ ignore' = ignore]_vars

\* A linkEntry call for a bare name stopped by the two files of that name in
\* the repository, with no link in the project.
C11_Witness ==
    /\ last.op = "link" /\ last.threw /\ last.error = "AmbiguousSuffix"
    /\ ~HasKnownSuffix(last.name)
    /\ InRepo(AdapterNamed(last.ad), last.name \o SUFFIX_INSTRUCTIONS_MD)
    /\ InRepo(AdapterNamed(last.ad), last.name \o SUFFIX_MD)
    /\ \A p \in ProjPaths : proj[p] = NoEnt

\* C12: when a file-mode linkEntry call resolves its source and is given an
\* alias without a recognized suffix, the target name is the alias followed by
\* the suffix of the resolved source; a link that is created is at that name,
\* and the paths of the bare alias and of the alias with the other suffix are
\* left as they were.
C12_AliasKeepsSourceSuffix ==
    [][Ran("link") =>
        LET ad == AdapterNamed(last'.ad)
            alias == last'.alias
            src == resolveSource(World, ad, SourceDirOf(ad), last'.name)
            other == IF src.suffix = SUFFIX_MD THEN SUFFIX_INSTRUCTIONS_MD ELSE SUFFIX_MD
        IN (ad.mode = "file" /\ src.ok /\ alias # NoStr /\ ~HasKnownSuffix(alias)) =>
              /\ src.suffix \in {SUFFIX_INSTRUCTIONS_MD, SUFFIX_MD}
              /\ endsWith(src.sourceName, src.suffix)
              /\ ~last'.threw => last'.targetName = alias \o src.suffix
              /\ last'.linked =>
                    proj'[Path(ad.targetDir, alias \o src.suffix)] = Symlink(src.sourcePath)
              /\ proj'[Path(ad.targetDir, alias)] = proj[Path(ad.targetDir, alias)]
              /\ proj'[Path(ad.targetDir, alias \o other)]
                    = proj[Path(ad.targetDir, alias \o other)]]_vars

\* With only a.instructions.md of that name in the repository, linking a under
\* the alias b made the link b.instructions.md and neither b.md nor b.
C12_Witness ==
    /\ last.op = "link" /\ last.linked /\ last.ad = copilotInstructionsAdapter.name
    /\ last.name = <<"a">> /\ last.alias = <<"b">>
    /\ InRepo(copilotInstructionsAdapter, <<"a">> \o SUFFIX_INSTRUCTIONS_MD)
    /\ ~InRepo(copilotInstructionsAdapter, <<"a">> \o SUFFIX_MD)
    /\ proj[Path(copilotInstructionsAdapter.targetDir, <<"b">> \o SUFFIX_INSTRUCTIONS_MD)]
          = Symlink(Path(SourceDirOf(copilotInstructionsAdapter),
                         <<"a">> \o SUFFIX_INSTRUCTIONS_MD))
    /\ proj[Path(copilotInstructionsAdapter.targetDir, <<"b">> \o SUFFIX_MD)] = NoEnt
    /\ proj[Path(copilotInstructionsAdapter.targetDir, <<"b">>)] = NoEnt

\* What file-mode resolution of a name must give: the one candidate that
\* exists and its suffix, or a not-found error.
ExpectResolved(ad, name, src, l, cand, suffix) ==
    /\ src.ok /\ src.sourceName = cand /\ src.suffix = suffix
    /\ src.sourcePath = Path(SourceDirOf(ad), cand)
    /\ l.error # "NotFound"
    /\ ~l.threw => l.sourceName = cand

ExpectNotFound(name, src, l) ==
    /\ ~src.ok /\ src.error = "NotFound" /\ src.named = <<name>>
    /\ l.threw /\ l.error = "NotFound"

\* C13: file-mode linkEntry resolves a bare name to the one of
\* <name>.instructions.md and <name>.md that exists, with that suffix, and a
\* name ending in a recognized suffix to itself when it exists; it throws not
\* found when nothing matches; in every throwing case the project is unchanged.
C13_FileModeResolution ==
    [][Ran("link") =>
        LET ad == AdapterNamed(last'.ad)
            name == last'.name
            src == resolveSource(World, ad, SourceDirOf(ad), name)
            candA == name \o SUFFIX_INSTRUCTIONS_MD
            candB == name \o SUFFIX_MD
        IN ad.mode = "file" =>
             /\ HasKnownSuffix(name) =>
                   IF InRepo(ad, name)
                   THEN ExpectResolved(ad, name, src, last', name,
                            IF endsWith(name, SUFFIX_INSTRUCTIONS_MD)
                            THEN SUFFIX_INSTRUCTIONS_MD ELSE SUFFIX_MD)
                   ELSE ExpectNotFound(name, src, last') /\ proj' = proj
             /\ ~HasKnownSuffix(name) =>
                   /\ (InRepo(ad, candA) /\ ~InRepo(ad, candB)) =>
                         ExpectResolved(ad, name, src, last', candA, SUFFIX_INSTRUCTIONS_MD)
                   /\ (InRepo(ad, candB) /\ ~InRepo(ad, candA)) =>
                         ExpectResolved(ad, name, src, last', candB, SUFFIX_MD)
                   /\ (~InRepo(ad, candA) /\ ~InRepo(ad, candB)) =>
                         ExpectNotFound(name, src, last') /\ proj' = proj]_vars

\* A bare name resolved to the only candidate in the repository, b.md, and
\* linked under that name.
C13_Witness ==
    /\ last.op = "link" /\ last.linked /\ last.ad = copilotInstructionsAdapter.name
    /\ last.name = <<"b">> /\ last.alias = NoStr
    /\ last.sourceName = <<"b">> \o SUFFIX_MD
    /\ ~InRepo(copilotInstructionsAdapter, <<"b">> \o SUFFIX_INSTRUCTIONS_MD)
    /\ proj[Path(copilotInstructionsAdapter.targetDir, <<"b">> \o SUFFIX_MD)]
          = Symlink(Path(SourceDirOf(copilotInstructionsAdapter), <<"b">> \o SUFFIX_MD))

\* The value recorded under a key of an object.
ValueOf(o, k) == o[CHOOSE i \in DOMAIN o : o[i].key = k].val

\* The records of one section in a file, none when the file does not exist.
SectionOf(file, s) == IF file.exists THEN file.body[s] ELSE <<>>

RulesOf(file) == IF file.exists THEN file.rules ELSE <<>>

CursorRules == cursorRulesAdapter.configPath

\* C14: no command writes or deletes a legacy file or removes the
\* current-format files once they exist; an add that records or a remove
\* reports migrated:true exactly when the project was legacy-only before it,
\* then ai-rules-sync.json exists, and on a project that has current-format
\* files it reports migrated:false.
C14_MigratesOnce ==
    [][/\ cfg'.legacyMain = cfg.legacyMain /\ cfg'.legacyLocal = cfg.legacyLocal
       /\ hasAnyNewConfig(cfg) => (hasAnyNewConfig(cfg') /\ ~last'.migrated)
       /\ ((Ran("add") /\ ~last'.threw) \/ Ran("remove")) =>
             /\ last'.migrated =
                   (~cfg.main.exists /\ ~cfg.local.exists
                      /\ (cfg.legacyMain.exists \/ cfg.legacyLocal.exists))
             /\ last'.migrated => cfg'.main.exists
             /\ (cfg.legacyMain.exists \/ cfg.legacyLocal.exists) =>
                   (cfg'.main.exists \/ cfg'.local.exists)]_vars

\* A later add or remove on a project that was migrated before: it reported
\* migrated:false and the legacy files are still there.
C14_Witness ==
    /\ ops = 2 /\ last.op \in {"add", "remove"} /\ ~last.threw /\ ~last.migrated
    /\ cfg.legacyMain.exists /\ cfg.legacyLocal.exists
    /\ cfg.main.exists /\ cfg.local.exists
    /\ RulesOf(cfg.legacyMain) # <<>> /\ RulesOf(cfg.legacyLocal) # <<>>

\* Whether the records `combined` are those of main overlaid by local.
IsOverlay(combined, main, local) ==
    \A k \in Names :
        /\ objHas(combined, k) <=> (objHas(main, k) \/ objHas(local, k))
        /\ objHas(local, k) => ValueOf(combined, k) = ValueOf(local, k)
        /\ (objHas(main, k) /\ ~objHas(local, k)) => ValueOf(combined, k) = ValueOf(main, k)

\* C15: the combined config is that of ai-rules-sync.json overlaid by
\* ai-rules-sync.local.json whenever either exists; otherwise that of the
\* legacy files as cursor.rules with every other section empty; and empty when
\* no config file exists.
C15_ReadsCurrentFormatFirst ==
    LET combined == getCombinedProjectConfig(cfg) IN
    IF cfg.main.exists \/ cfg.local.exists
    THEN \A s \in Sections :
            IsOverlay(combined[s], SectionOf(cfg.main, s), SectionOf(cfg.local, s))
    ELSE IF cfg.legacyMain.exists \/ cfg.legacyLocal.exists
    THEN /\ IsOverlay(combined[CursorRules], RulesOf(cfg.legacyMain),
                      RulesOf(cfg.legacyLocal))
         /\ \A s \in Sections \ {CursorRules} : combined[s] = <<>>
    ELSE \A s \in Sections : combined[s] = <<>>

\* A project with current-format and legacy files where a legacy rule is not
\* in the current-format files, and not in the combined config.
C15_Witness ==
    /\ cfg.main.exists /\ cfg.legacyMain.exists
    /\ \E k \in Names :
          /\ objHas(RulesOf(cfg.legacyMain), k) \/ objHas(RulesOf(cfg.legacyLocal), k)
          /\ ~objHas(getCombinedProjectConfig(cfg)[CursorRules], k)

\* C16: a remove on a legacy-only project of an alias that has no record only
\* migrates: the combined config afterwards is the combined config before,
\* ai-rules-sync.json holds the public legacy rules as cursor.rules and, when
\* there are private legacy rules, ai-rules-sync.local.json holds those.
C16_MigrationKeepsRecords ==
    [][(Ran("remove") /\ ~cfg.main.exists /\ ~cfg.local.exists
          /\ (cfg.legacyMain.exists \/ cfg.legacyLocal.exists)
          /\ ~objHas(getCombinedProjectConfig(cfg)[AdapterNamed(last'.ad).configPath],
                     last'.alias)) =>
          /\ last'.migrated
          /\ getCombinedProjectConfig(cfg') = getCombinedProjectConfig(cfg)
          /\ cfg'.main.exists
          /\ \A s \in Sections :
                cfg'.main.body[s] = IF s = CursorRules THEN RulesOf(cfg.legacyMain) ELSE <<>>
          /\ IF RulesOf(cfg.legacyLocal) # <<>>
             THEN /\ cfg'.local.exists
                  /\ \A s \in Sections :
                        cfg'.local.body[s] =
                            IF s = CursorRules THEN RulesOf(cfg.legacyLocal) ELSE <<>>
             ELSE cfg'.local = cfg.local]_vars

\* A remove that only migrated a project with public and private legacy rules.
C16_Witness ==
    /\ last.op = "remove" /\ last.migrated
    /\ RulesOf(cfg.legacyMain) # <<>> /\ RulesOf(cfg.legacyLocal) # <<>>
    /\ SectionOf(cfg.main, CursorRules) = RulesOf(cfg.legacyMain)
    /\ SectionOf(cfg.local, CursorRules) = RulesOf(cfg.legacyLocal)

\* C17: an install leaves the four dependency files as they were.
C17_InstallKeepsConfig ==
    [][Ran("install") => cfg' = cfg]_vars

\* The source and the target path install resolves for the record under key.
RecordEntry(ad, key) ==
    parseConfigEntry(key, ValueOf(getCombinedProjectConfig(cfg)[ad.configPath], key))

RecordSource(ad, key) ==
    resolveSource(World, ad, SourceDirOf(ad), RecordEntry(ad, key).entryName)

RecordTarget(ad, key) ==
    Path(ad.targetDir,
         resolveTargetName(ad, RecordEntry(ad, key).entryName, RecordEntry(ad, key).alias,
                           RecordSource(ad, key).suffix))

RecordedKeys(ad) ==
    {k \in Names : objHas(getCombinedProjectConfig(cfg)[ad.configPath], k)}

\* A symbolic link whose referent is gone.
Dangling(p) == proj[p].kind = "symlink" /\ ~projPathExists(World, p)

\* C18: when every record of an install has a source and its target path
\* holds either a real entry (the record is skipped) or nothing or a live
\* link, the install does not throw, every skipped target is left as it was
\* and every other record is linked to its source, whatever was skipped
\* before it.
C18_InstallPassesSkipped ==
    [][Ran("install") =>
        LET ad == AdapterNamed(last'.ad)
            keys == RecordedKeys(ad)
        IN (\A k \in keys : RecordSource(ad, k).ok /\ ~Dangling(RecordTarget(ad, k))) =>
              /\ ~last'.threw
              /\ \A k \in keys :
                    proj'[RecordTarget(ad, k)] =
                       IF IsReal(proj[RecordTarget(ad, k)])
                       THEN proj[RecordTarget(ad, k)]
                       ELSE Symlink(RecordSource(ad, k).sourcePath)]_vars

\* An install that skipped the first record of a section, whose target is the
\* user's directory, and linked the second.
C18_Witness ==
    /\ last.op = "install" /\ ~last.threw
    /\ LET ad == AdapterNamed(last.ad)
           entries == getCombinedProjectConfig(cfg)[ad.configPath]
       IN /\ Len(entries) = 2
          /\ proj[RecordTarget(ad, entries[1].key)] = Real(KindOf(ad), "user")
          /\ proj[RecordTarget(ad, entries[2].key)]
                = Symlink(RecordSource(ad, entries[2].key).sourcePath)

\* The project with every symbolic link of an adapter's target directory
\* deleted.
LinksDeleted(ad) ==
    [World EXCEPT !.proj = [p \in ProjPaths |->
        IF p.dir = ad.targetDir /\ proj[p].kind = "symlink" THEN NoEnt ELSE proj[p]]]

\* C19: after an add that linked, the record it wrote makes install resolve the
\* source path and the target name of that add, and an install run after the
\* links of the adapter are deleted puts every one of them back with the
\* referent it has now.
C19_InstallRepeatsAdd ==
    (last.op = "add" /\ last.linked) =>
        LET ad == AdapterNamed(last.ad)
            key == last.targetName
            restored == installEntriesForAdapter(LinksDeleted(ad), ad)
        IN /\ key \in RecordedKeys(ad)
           /\ RecordSource(ad, key).ok
           /\ RecordSource(ad, key).sourcePath = Path(SourceDirOf(ad), last.sourceName)
           /\ RecordTarget(ad, key) = Path(ad.targetDir, last.targetName)
           /\ ~restored.threw
           /\ \A p \in ProjPaths :
                 (p.dir = ad.targetDir /\ proj[p].kind # "none") =>
                    restored.w.proj[p] = proj[p]

\* The records of an adapter's section in the private config file.
PrivateEntries(ad) ==
    IF cfg.main.exists \/ cfg.local.exists THEN SectionOf(cfg.local, ad.configPath)
    ELSE IF ad.configPath = CursorRules THEN RulesOf(cfg.legacyLocal)
    ELSE <<>>

\* C20: an install adds to .gitignore no line for an entry recorded in the
\* private config file and, when .git/info exists and the entry's link is in
\* place afterwards, its line is in .git/info/exclude.
C20_InstallKeepsPrivate ==
    [][Ran("install") =>
        LET ad == AdapterNamed(last'.ad)
        IN \A k \in Names : objHas(PrivateEntries(ad), k) =>
              LET line == IgnoreLine(ad, RecordTarget(ad, k).name)
              IN /\ FileHasLine(ignore'.gitignore, line) => FileHasLine(ignore.gitignore, line)
                 /\ (gitInfo /\ RecordSource(ad, k).ok /\ ~last'.threw
                       /\ proj'[RecordTarget(ad, k)].kind = "symlink") =>
                       FileHasLine(ignore'.exclude, line)]_vars

\* The records of a section that are under version control before any
\* migration: those of ai-rules-sync.json, or of cursor-rules.json on a
\* legacy-only project.
PublicEntries(s) ==
    IF cfg.main.exists \/ cfg.local.exists THEN SectionOf(cfg.main, s)
    ELSE IF s = CursorRules THEN RulesOf(cfg.legacyMain)
    ELSE <<>>

C22_LinkIgnoreLine ==
    [][Ran("link") =>
        LET ad == AdapterNamed(last'.ad)
            line == IgnoreLine(ad, last'.targetName)
            withInfo == linkEntry([World EXCEPT !.gitInfo = TRUE], ad,
                                  Req(last'.name, last'.alias, last'.isLocal))
        IN /\ (last'.linked /\ ~last'.isLocal) =>
                 (FileHasLine(ignore'.gitignore, line) /\ ignore'.exclude = ignore.exclude)
           /\ (last'.linked /\ last'.isLocal /\ gitInfo) =>
                 (FileHasLine(ignore'.exclude, line) /\ ignore'.gitignore = ignore.gitignore)
           /\ (last'.isLocal /\ ~gitInfo) =>
                 /\ ignore' = ignore
                 /\ last'.linked = withInfo.linked
                 /\ last'.threw = withInfo.threw]_vars

\* A private link made in a project without .git/info: linked, no ignore file
\* written.
C22_Witness ==
    /\ last.op = "link" /\ last.isLocal /\ ~gitInfo /\ last.linked /\ ~last.threw
    /\ proj[Path(AdapterNamed(last.ad).targetDir, last.targetName)].kind = "symlink"
    /\ ~ignore.gitignore.exists /\ ~ignore.exclude.exists

\* The lines of an ignore file other than `line` and other than empty ones, in
\* order.
OtherLines(f, line) ==
    IF f.exists THEN SelectSeq(f.lines, LAMBDA l : l # NoStr /\ trim(l) # line) ELSE <<>>

C23_WitnessAbsent ==
    /\ last.op = "unlink" /\ ops = 1
    /\ ~ignore.gitignore.exists /\ ~ignore.exclude.exists

\* The number of lines of an ignore file that hold the entry, blanks around
\* either left aside.
Occurrences(f, entry) ==
    IF f.exists
    THEN Cardinality({i \in DOMAIN f.lines : trim(f.lines[i]) = trim(entry)})
    ELSE 0

\* C24: starting from a file without duplicate lines, after every
\* addIgnoreEntry and removeIgnoreEntry call each entry and the header occupy
\* at most one line; adding an entry that is present returns false and leaves
\* the file as it was, and so does removing an entry that is absent.
C24_IgnoreEditsIdempotent ==
    [][(Ran("addIgnore") \/ Ran("removeIgnore")) =>
        /\ \A e \in IgnoreEntries \cup {HEADER_AI_RULES_SYNC} :
              Occurrences(ignore'.gitignore, e) <= 1
        /\ (Ran("addIgnore") /\ Occurrences(ignore.gitignore, last'.name) > 0) =>
              (~last'.returned /\ ignore'.gitignore = ignore.gitignore)
        /\ (Ran("removeIgnore") /\ Occurrences(ignore.gitignore, last'.name) = 0) =>
              (~last'.returned /\ ignore'.gitignore = ignore.gitignore)]_vars

\* The config file an addDependency call with the flag isLocal writes.
WrittenFile(c, isLocal) == IF isLocal THEN c.local ELSE c.main

\* C25: addDependency(name, alias) leaves in the file it writes, under the
\* key alias if given and name otherwise, the bare repository URL when no
\* alias is given or the alias is the name, and { url, rule: name } when the
\* alias differs from the name.
C25_AddDependencyRecord ==
    [][Ran("addDependency") =>
        LET section == SectionOf(WrittenFile(cfg', last'.isLocal),
                                 AdapterNamed(last'.ad).configPath)
            key == IF last'.alias # NoStr THEN last'.alias ELSE last'.name
        IN /\ objHas(section, key)
           /\ ValueOf(section, key) =
                 IF last'.alias = NoStr \/ last'.alias = last'.name
                 THEN UrlEntry(RepoUrl)
                 ELSE ObjEntry(RepoUrl, last'.name)]_vars

\* add(a) on a project without config files yields {cursor: {rules: {a: url}}}.
C25_Witness ==
    /\ last.op = "addDependency" /\ last.name = <<"a">> /\ last.alias = NoStr
    /\ ~last.isLocal /\ ops = 1
    /\ cfg = [NoConfig EXCEPT
                !.main = ConfigFile(CursorRules, <<[key |-> <<"a">>, val |-> UrlEntry(RepoUrl)]>>)]

\* add(a, b) yields {b: {url, rule: a}}.
C25_WitnessAlias ==
    /\ last.op = "addDependency" /\ last.name = <<"a">> /\ last.alias = <<"b">>
    /\ ~last.isLocal /\ ops = 1
    /\ cfg = [NoConfig EXCEPT
                !.main = ConfigFile(CursorRules,
                                    <<[key |-> <<"b">>, val |-> ObjEntry(RepoUrl, <<"a">>)]>>)]

\* add(a, a) yields {a: url}.
C25_WitnessSameAlias ==
    /\ last.op = "addDependency" /\ last.name = <<"a">> /\ last.alias = <<"a">>
    /\ ValueOf(SectionOf(WrittenFile(cfg, last.isLocal), AdapterNamed(last.ad).configPath),
               <<"a">>) = UrlEntry(RepoUrl)

\* C26: when a current-format file exists, every section of the combined
\* config holds exactly the aliases of ai-rules-sync.json and of
\* ai-rules-sync.local.json, each with the record of the private file when
\* that file has the alias and with the record of the public file otherwise.
C26_PrivateRecordWins ==
    (cfg.main.exists \/ cfg.local.exists) =>
        \A s \in Sections : \A k \in Names :
            LET combined == getCombinedProjectConfig(cfg)[s]
                main == SectionOf(cfg.main, s)
                local == SectionOf(cfg.local, s)
            IN /\ objHas(combined, k) = (objHas(main, k) \/ objHas(local, k))
               /\ objHas(local, k) => ValueOf(combined, k) = ValueOf(local, k)
               /\ (objHas(main, k) /\ ~objHas(local, k)) =>
                     ValueOf(combined, k) = ValueOf(main, k)
               /\ Cardinality({i \in DOMAIN combined : combined[i].key = k}) <= 1

\* A section whose public and private files record the same alias with
\* different values, next to an alias recorded in one file only.
C26_Witness ==
    \E s \in Sections : \E k, other \in Names :
        /\ objHas(SectionOf(cfg.main, s), k) /\ objHas(SectionOf(cfg.local, s), k)
        /\ ValueOf(SectionOf(cfg.main, s), k) # ValueOf(SectionOf(cfg.local, s), k)
        /\ other # k /\ objHas(getCombinedProjectConfig(cfg)[s], other)
        /\ ~(objHas(SectionOf(cfg.main, s), other) /\ objHas(SectionOf(cfg.local, s), other))

\* The directory override a repository's ai-rules-sync.json stores for a
\* section: the string under sourceDir when sourceDir is present, and
\* otherwise the string directly under tool.subtype.
StoredOverride(s) ==
    IF ~repoFile.exists THEN Undefined
    ELSE IF repoFile.hasSourceDir THEN repoFile.sourceDir[s]
    ELSE IF repoFile.flat[s].kind = "string" THEN Str(repoFile.flat[s].str)
    ELSE Undefined

\* join(rootPath, override ?? defaultSourceDir), without prefix when rootPath
\* is absent or empty.
EffectiveDir(ad) ==
    LET override == getRepoSourceConfig(World).dirs[ad.configPath]
        dir == IF override.defined THEN override.str ELSE ad.defaultSourceDir
    IN IF repoFile.exists /\ repoFile.rootPath.defined /\ repoFile.rootPath.str # ""
       THEN repoFile.rootPath.str \o "/" \o dir
       ELSE dir

\* The file names linkEntry tries for a name: the name itself, or for the
\* instructions adapter given a bare name, the name with each recognized suffix.
SourceCandidates(ad, name) ==
    IF ad = copilotInstructionsAdapter /\ ~HasKnownSuffix(name)
    THEN {name \o SUFFIX_INSTRUCTIONS_MD, name \o SUFFIX_MD}
    ELSE {name}

\* C27: linkEntry looks for its source in the effective directory and links
\* to the entry there, and importEntry copies the project's entry into the
\* same directory, refusing without --force exactly when that path is taken.
C27_EffectiveSourceDir ==
    [][/\ Ran("link") =>
             LET ad == AdapterNamed(last'.ad)
                 target == Path(ad.targetDir, last'.targetName)
             IN /\ last'.threw =
                      (\A n \in SourceCandidates(ad, last'.name) :
                          ~repoPathExists(World, Path(EffectiveDir(ad), n)))
                /\ last'.linked =>
                      proj'[target] = Symlink(Path(EffectiveDir(ad), last'.sourceName))
       /\ Ran("import") =>
             LET ad == AdapterNamed(last'.ad)
                 dest == Path(EffectiveDir(ad), last'.name)
             IN /\ (last'.error = "AlreadyExists") =
                      (/\ IsReal(proj[Path(ad.targetDir, last'.name)])
                       /\ repoPathExists(World, dest) /\ ~last'.force)
                /\ (~last'.threw \/ last'.error = "ensureSymlink") =>
                      /\ repo'[dest].data \in {"user", "merged"}
                      /\ \A p \in DOMAIN repo : p # dest => repo'[p] = repo[p]]_vars

\* A link made from a repository with rootPath and an override: its referent
\* is under root/custom.
C27_Witness ==
    /\ last.op = "link" /\ last.linked
    /\ repoFile.exists /\ repoFile.rootPath = Str("root")
    /\ proj[Path(AdapterNamed(last.ad).targetDir, last.targetName)].kind = "symlink"
    /\ proj[Path(AdapterNamed(last.ad).targetDir, last.targetName)].ref.dir = "root/custom"

\* An import into a repository with an override and no rootPath: the entry
\* is in the overriding directory.
C27_WitnessImport ==
    /\ last.op = "import" /\ ~last.threw
    /\ repoFile.exists /\ ~repoFile.rootPath.defined
    /\ repo[Path("custom", last.name)].data = "user"

\* C28: getRepoSourceConfig returns the empty configuration when the
\* repository has no ai-rules-sync.json, and a directory for a section only
\* when a string is stored for it, under sourceDir or directly under
\* tool.subtype, and then that string; an object of dependency records under
\* tool.subtype is never returned.
C28_SourceConfigShape ==
    LET config == getRepoSourceConfig(World) IN
    /\ ~repoFile.exists => config = NoRepoSourceConfig
    /\ \A s \in Sections :
          /\ config.dirs[s].defined => config.dirs[s] = StoredOverride(s)
          /\ (repoFile.exists /\ repoFile.flat[s].kind = "object"
                /\ ~repoFile.sourceDir[s].defined) => ~config.dirs[s].defined

\* A repository whose file holds a source directory in the flat form next to
\* an object of dependency records, after a link from it.
C28_Witness ==
    /\ last.op = "link" /\ ~last.threw
    /\ repoFile.exists /\ ~repoFile.hasSourceDir
    /\ \E s, t \in Sections :
          /\ repoFile.flat[s].kind = "string" /\ repoFile.flat[t].kind = "object"
          /\ getRepoSourceConfig(World).dirs[s] = Str(repoFile.flat[s].str)
          /\ ~getRepoSourceConfig(World).dirs[t].defined

\* The state a handleImport step started from, with the imported entry taken
\* out of the project and the repository as the import left it.
BeforeImported(target) == [World EXCEPT !.proj[target] = NoEnt, !.repo = repo']

\* C29: an import command that succeeds leaves the project's links, ignore
\* files and dependency files as an add of the same name, run with the same
\* flags on the project without the imported entry and with the repository
\* holding it, would leave them.
C29_ImportLeavesAddState ==
    [][(Ran("import") /\ ~last'.threw) =>
        LET ad == AdapterNamed(last'.ad)
            added == handleAdd(BeforeImported(Path(ad.targetDir, last'.name)), ad,
                               last'.isLocal, last'.name, NoStr)
        IN /\ ~added.threw
           /\ added.w.proj = proj'
           /\ added.w.ignore = ignore'
           /\ added.w.cfg = cfg']_vars

\* The adapters registered: those all() returns.
AllAdapters == {adapterRegistry.adapters[i].val : i \in DOMAIN adapterRegistry.adapters}

\* C30: for every registered adapter a, the lookup by (a.tool, a.subtype)
\* returns a, and getAdapter throws for a pair exactly when no registered
\* adapter has it.
C30_RegistryLookupByPair ==
    /\ \A a \in AllAdapters :
          registryGet(adapterRegistry, a.tool, a.subtype) = [found |-> TRUE, adapter |-> a]
    /\ \A tool \in Tools : \A subtype \in Subtypes :
          getAdapter(adapterRegistry, tool, subtype).threw =
             ~\E a \in AllAdapters : a.tool = tool /\ a.subtype = subtype

\* The records an install of the last kind reads: the adapter's section of
\* the combined config.
InstalledEntries == getCombinedProjectConfig(cfg)[AdapterNamed(last'.ad).configPath]

\* Whether the global configuration holds a repository for a URL.
Configured(config, url) == \E i \in DOMAIN config.repos : config.repos[i].val.url = url

\* C31: an install keeps every repository that was configured before it, and
\* the global configuration afterwards holds a repository for the URL of every
\* record the install came to: all of them when it returns, and those up to
\* the record it stopped at when it throws. It configures no URL twice.
C31_InstallKeepsRepos ==
    [][(Ran("install") \/ Ran("installCursorRules")) =>
        LET before == configDir.config.repos
            after == configDir'.config.repos
            urls == [i \in DOMAIN InstalledEntries |-> InstalledEntries[i].val.url]
        IN /\ \A i \in DOMAIN before :
                 \E j \in DOMAIN after : after[j] = before[i]
           /\ \A i, j \in DOMAIN after : after[i].key = after[j].key => i = j
           /\ \A i, j \in DOMAIN after :
                 (after[i].val.url = after[j].val.url /\ ~Configured(configDir.config, after[i].val.url))
                    => i = j
           /\ \E n \in 0..Len(urls) :
                 /\ ~last'.threw => n = Len(urls)
                 /\ \A i \in 1..n : Configured(configDir'.config, urls[i])
                 /\ \A j \in DOMAIN after :
                       \/ \E i \in DOMAIN before : after[j] = before[i]
                       \/ \E i \in 1..n : after[j].val.url = urls[i]]_vars

\* An install that returned after it configured two repositories it met, on a
\* machine that had one configured.
C31_Witness ==
    /\ last.op = "install" /\ ~last.threw
    /\ Len(configDir.config.repos) = 3
    /\ configDir.config.repos[1] = [key |-> "rules", val |-> RepoConfig("rules", RepoUrl)]
    /\ \E i, j \in 2..3 : /\ configDir.config.repos[i].val.url = MirrorUrl
                          /\ configDir.config.repos[j].val.url = TeamUrl

\* An install that threw at a repository it could not clone, after it
\* configured another.
C31_WitnessThrew ==
    /\ last.op = "install" /\ last.threw /\ last.error = "clone"
    /\ Configured(configDir.config, GoneUrl)
    /\ Configured(configDir.config, MirrorUrl)
    /\ ops = 1

\* Whether no source resolves for a name: none of the file names linkEntry
\* tries is in the source directory, or a bare name of the instructions
\* adapter has both.
Unresolvable(ad, name) ==
    LET present == {n \in SourceCandidates(ad, name) : InRepo(ad, n)}
    IN present = {} \/ Cardinality(present) > 1

\* C32: when the source of a linkEntry call cannot be resolved, the call
\* throws not found or ambiguous, and the project is as before: the same
\* target directories, the same entries and links, the same ignore files.
C32_UnresolvedLeavesProject ==
    [][(Ran("link") /\ Unresolvable(AdapterNamed(last'.ad), last'.name)) =>
          /\ last'.threw /\ last'.error \in {"NotFound", "AmbiguousSuffix"}
          /\ projDirs' = projDirs
          /\ proj' = proj
          /\ ignore' = ignore]_vars

\* A linkEntry call that found no source, in a project where links were
\* never made: the target directory is still absent.
C32_Witness ==
    /\ last.op = "link" /\ last.threw /\ last.error = "NotFound"
    /\ AdapterNamed(last.ad).targetDir \notin projDirs

\* A linkEntry call stopped by an ambiguous name, with the link made earlier
\* for that name still in place.
C32_WitnessLinkKept ==
    /\ last.op = "link" /\ last.threw /\ last.error = "AmbiguousSuffix"
    /\ proj[Path(AdapterNamed(last.ad).targetDir, last.name \o SUFFIX_INSTRUCTIONS_MD)].kind
          = "symlink"

\* C33: after unlinkEntry(adapter, projectPath, alias) there is no symbolic
\* link at targetDir/alias, whether its referent exists or not.
C33_UnlinkRemovesLink ==
    [][Ran("unlink") =>
          proj'[Path(AdapterNamed(last'.ad).targetDir, last'.alias)].kind # "symlink"]_vars

\* Whether linking a record must throw: its repository cannot be cloned, or
\* no source resolves for its name.
RecordFails(ad, entry) ==
    \/ entry.val.url = GoneUrl
    \/ Unresolvable(ad, OrElse(entry.val.rule, entry.key))

\* Whether a link is in the project for a record without alias: at the
\* record's key, or at the key with the suffix of its source.
RecordLinked(p, ad, entry) ==
    \E n \in SourceCandidates(ad, entry.key) : p[Path(ad.targetDir, n)].kind = "symlink"

\* C34: when a record's link must throw, install throws; the records before
\* the first such record are linked afterwards, and for the records after it
\* nothing is done: no link is made and no repository is configured.
C34_InstallStopsAtError ==
    [][Ran("install") =>
        LET ad == AdapterNamed(last'.ad)
            entries == InstalledEntries
            failing == {i \in DOMAIN entries : RecordFails(ad, entries[i])}
        IN failing # {} =>
             LET k == CHOOSE i \in failing : \A j \in failing : i <= j IN
             /\ last'.threw /\ last'.error # ""
             /\ \A i \in 1..(k - 1) : RecordLinked(proj', ad, entries[i])
             /\ \A i \in (k + 1)..Len(entries) :
                   /\ \A n \in SourceCandidates(ad, entries[i].key) :
                         proj'[Path(ad.targetDir, n)] = proj[Path(ad.targetDir, n)]
                   /\ Configured(configDir'.config, entries[i].val.url)
                         => \/ Configured(configDir.config, entries[i].val.url)
                            \/ \E j \in 1..k : entries[j].val.url = entries[i].val.url]_vars

\* An install that linked its first record, threw at the second and left
\* the third, whose source exists, without link.
C34_Witness ==
    /\ last.op = "install" /\ last.threw /\ last.error = "NotFound"
    /\ last.ad = copilotInstructionsAdapter.name
    /\ proj[Path(copilotInstructionsAdapter.targetDir, <<"a">> \o SUFFIX_INSTRUCTIONS_MD)].kind
          = "symlink"
    /\ proj[Path(copilotInstructionsAdapter.targetDir, <<"b">> \o SUFFIX_MD)].kind = "none"
    /\ InRepo(copilotInstructionsAdapter, <<"b">> \o SUFFIX_MD)
    /\ ops = 1

\* C35: an add whose link throws leaves the dependency files as they were,
\* legacy files not migrated, and .gitignore without a new line.
C35_FailedAddLeavesConfig ==
    [][(Ran("add") /\ last'.threw) =>
          /\ cfg' = cfg
          /\ ~last'.migrated
          /\ ignore'.gitignore = ignore.gitignore]_vars

\* A private add that threw in a project with legacy dependency files only:
\* no current-format file and no .gitignore exist.
C35_Witness ==
    /\ last.op = "add" /\ last.threw /\ last.isLocal
    /\ cfg.legacyMain.exists /\ ~cfg.main.exists /\ ~cfg.local.exists
    /\ ~ignore.gitignore.exists

\* C36: after a handleAdd that returned, the file it wrote holds the
\* dependency under the key LinkResult.targetName, and the original name of
\* that record (its `rule`, or the key of a bare URL) is LinkResult.sourceName.
C36_RecordMatchesLinkResult ==
    [][(Ran("add") /\ ~last'.threw) =>
        LET section == WrittenFile(cfg', last'.isLocal).body[AdapterNamed(last'.ad).configPath]
        IN /\ objHas(section, last'.targetName)
           /\ LET value == ValueOf(section, last'.targetName)
              IN (IF value.isObj THEN value.rule ELSE last'.targetName) = last'.sourceName]_vars

\* An add with an alias for the instructions adapter: the record's key is the
\* alias with the suffix of the source, and its rule the source's file name.
C36_Witness ==
    /\ last.op = "add" /\ ~last.threw /\ last.ad = copilotInstructionsAdapter.name
    /\ last.name = <<"a">> /\ last.alias = <<"b">>
    /\ last.targetName = <<"b">> \o SUFFIX_INSTRUCTIONS_MD
    /\ last.sourceName = <<"a">> \o SUFFIX_INSTRUCTIONS_MD
    /\ objHas(WrittenFile(cfg, last.isLocal).body[copilotInstructionsAdapter.configPath],
              last.targetName)

\* The legacy file a current-format file is migrated from.
LegacyOf(which) == IF which = "main" THEN cfg.legacyMain ELSE cfg.legacyLocal

\* What a write of a dependency starts from in the file `which` ("main" or
\* "local"): the file as it is, or, when the call migrates the legacy files
\* and afterMigration is set, the file migration makes of the legacy one.
StartExists(which, afterMigration) ==
    IF afterMigration /\ last'.migrated
    THEN which = "main" \/ RulesOf(LegacyOf(which)) # <<>>
    ELSE cfg[which].exists

StartBody(which, afterMigration) ==
    IF afterMigration /\ last'.migrated
    THEN [s \in Sections |-> IF s = CursorRules THEN RulesOf(LegacyOf(which)) ELSE <<>>]
    ELSE readConfigFile(cfg[which])

StartTop(which, afterMigration) ==
    IF afterMigration /\ last'.migrated THEN NoTop ELSE readTop(cfg[which])

\* The file `which` afterwards differs from what the write started from at
\* most in the record of `key` in the section configPath.
OnlyKeyChanged(which, configPath, key, afterMigration) ==
    /\ readTop(cfg'[which]) = StartTop(which, afterMigration)
    /\ \A s \in Sections \ {configPath} :
          readConfigFile(cfg'[which])[s] = StartBody(which, afterMigration)[s]
    /\ objDelete(readConfigFile(cfg'[which])[configPath], key)
          = objDelete(StartBody(which, afterMigration)[configPath], key)

\* The file `which` afterwards is what the write started from.
NotWritten(which, afterMigration) ==
    /\ cfg'[which].exists = StartExists(which, afterMigration)
    /\ readTop(cfg'[which]) = StartTop(which, afterMigration)
    /\ readConfigFile(cfg'[which]) = StartBody(which, afterMigration)

DependencyWriteFrame(afterMigration) ==
    LET configPath == AdapterNamed(last'.ad).configPath IN
    /\ Ran("addDependency") =>
          LET key == OrElse(last'.alias, last'.name) IN
          /\ OnlyKeyChanged(IF last'.isLocal THEN "local" ELSE "main", configPath, key,
                            afterMigration)
          /\ NotWritten(IF last'.isLocal THEN "main" ELSE "local", afterMigration)
    /\ Ran("removeDependency") =>
          \A which \in {"main", "local"} :
             /\ OnlyKeyChanged(which, configPath, last'.alias, afterMigration)
             /\ cfg'[which].exists = StartExists(which, afterMigration)

\* C37 as stated: addDependencyGeneric and removeDependencyGeneric change, in
\* the files as they were before the call, only the record of the one alias
\* in the section named by configPath, and addDependencyGeneric leaves the
\* file not selected by isLocal as it was.
C37_DependencyWriteFrame == [][DependencyWriteFrame(FALSE)]_vars

\* C37 amended: the same frame, counted from the files that the migration of
\* legacy files makes when the call migrates (ai-rules-sync.json with the
\* legacy public rules, and ai-rules-sync.local.json when there are legacy
\* private rules), and from the files as they were when it does not.
C37_DependencyWriteFrameAfterMigration == [][DependencyWriteFrame(TRUE)]_vars

\* A private addDependency of an instructions record in a project with both
\* legacy files: migration wrote ai-rules-sync.json too, and the private file
\* holds the legacy private rule next to the new record.
C37_Witness ==
    /\ last.op = "addDependency" /\ last.migrated /\ last.isLocal
    /\ last.ad = copilotInstructionsAdapter.name
    /\ cfg.main.exists /\ cfg.main.body[CursorRules] # <<>>
    /\ cfg.local.body[CursorRules] # <<>>
    /\ cfg.local.body[copilotInstructionsAdapter.configPath] # <<>>

\* An addDependency to a file with top-level fields and other records: they
\* are still there.
C37_WitnessTopLevel ==
    /\ last.op = "addDependency" /\ ~last.migrated /\ ~last.isLocal /\ ops = 1
    /\ last.ad = cursorRulesAdapter.name /\ last.name = <<"b">> /\ last.alias = NoStr
    /\ cfg.main.top = [rootPath |-> Str("root"), sourceDir |-> Str("custom")]
    /\ cfg.main.body[CursorRules] = << [key |-> <<"a">>, val |-> UrlEntry(RepoUrl)],
                                       [key |-> <<"b">>, val |-> UrlEntry(RepoUrl)] >>

\* ---------------------------------------------------------------- C38
\* The sections of the combined config that have the alias as a key.
SectionsWithKey(config, alias) ==
    {i \in DOMAIN RoutingOrder : objHas(config[RoutingOrder[i].configPath], alias)}

\* C38: findAdapterForAlias returns an adapter exactly when the alias is a key
\* of at least one section of the config, and then the adapter of the first
\* such section in the order cursor.rules, cursor.commands,
\* copilot.instructions; otherwise it returns null.
C38_RoutesToFirstSectionWithKey ==
    last.op = "findAdapterForAlias" =>
        LET with == SectionsWithKey(getCombinedProjectConfig(cfg), last.alias) IN
        /\ last.returned <=> with # {}
        /\ last.returned =>
              last.ad = RoutingOrder[CHOOSE i \in with : \A j \in with : i <= j].name
        /\ ~last.returned => last.ad = NoAdapter.name

\* ---------------------------------------------------------------- C39
\* The key an invocation records.
KeyOf(i) == OrElse(i.alias, i.name)

\* Whether the dependency file an invocation wrote holds its record.
Recorded(i) ==
    objHas(readConfigFile(fileForWrite(cfg, i.isLocal))[i.configPath], KeyOf(i))

\* Invocation p has just written the file.
Wrote(p) == invocations[p].pc = "write" /\ invocations'[p].pc = "done"

\* C39: two invocations on the same project config file are not isolated.
\* Each write replaces the whole file by the config the invocation read
\* earlier plus its own record, whatever the file holds at that moment (no
\* lock, no re-read), so the record another invocation wrote in between is
\* kept only if it was already in the file when this invocation read it.
C39_LastWriterWins ==
    [][\A p \in Procs : Wrote(p) =>
          LET i == invocations[p]
              file == fileForWrite(cfg', i.isLocal)
          IN /\ file.exists
             /\ file.body = i.config.body
             /\ file.top = i.config.top
             /\ \A q \in Procs \ {p} :
                   (/\ invocations[q].pc = "done"
                    /\ invocations[q].isLocal = i.isLocal
                    /\ <<invocations[q].configPath, KeyOf(invocations[q])>>
                          # <<i.configPath, KeyOf(i)>>)
                   => (objHas(file.body[invocations[q].configPath], KeyOf(invocations[q]))
                         <=> objHas(i.config.body[invocations[q].configPath],
                                    KeyOf(invocations[q])))]_vars

\* Both invocations have finished on the same file with different keys, and
\* the file lacks the record one of them wrote.
C39_Witness ==
    /\ \A p \in Procs : invocations[p].pc = "done"
    /\ invocations[1].isLocal = invocations[2].isLocal
    /\ <<invocations[1].configPath, KeyOf(invocations[1])>>
          # <<invocations[2].configPath, KeyOf(invocations[2])>>
    /\ \E p \in Procs : ~Recorded(invocations[p])

\* Both invocations have finished on the same file one after the other, and
\* the file holds both records.
C39_WitnessSerial ==
    /\ \A p \in Procs : invocations[p].pc = "done"
    /\ invocations[1].isLocal = invocations[2].isLocal
    /\ <<invocations[1].configPath, KeyOf(invocations[1])>>
          # <<invocations[2].configPath, KeyOf(invocations[2])>>
    /\ \A p \in Procs : Recorded(invocations[p])

====
